---- MODULE Spec2Model ----
(***************************************************************************)
(* Model of eslint-plugin-test-a11y-js: the event-handler classifier       *)
(* (utils/event-utils.ts), the accessibility rules that consume it, the    *)
(* component-role resolver and the per-file comment cache.                 *)
(*                                                                         *)
(* The rule visitors and classifier queries are pure functions of the      *)
(* element node (and the immutable settings): Init draws the node from a   *)
(* bounded family of syntax trees and each action applies one exported     *)
(* function or one visitor to it, recording what it returned or reported.  *)
(* The comment cache is the only mutable component and has its own         *)
(* actions.                                                                *)
(***************************************************************************)
EXTENDS Naturals, Integers, Sequences, FiniteSets, TLC

VARIABLES node, settings, op, result, files, cache

vars == <<node, settings, op, result, files, cache>>

(***************************************************************************)
(* Bounds of the model.                                                    *)
(***************************************************************************)
\* longest attribute list of an element handed to the event classifier
MaxAttrs == 2

(***************************************************************************)
(* JavaScript values and the string built-ins the code calls.              *)
(***************************************************************************)
Str(s) == [t |-> "string", v |-> s]

Num(s) == [t |-> "number", v |-> s]

Obj(s) == [t |-> "object", v |-> s]

JSUndefined == [t |-> "undefined", v |-> ""]

JSNull == [t |-> "null", v |-> ""]

\* JavaScript truthiness: '', 0, null and undefined are falsy
Truthy(x) ==
  CASE x.t = "string" -> x.v # ""
    [] x.t = "number" -> x.v # "0"
    [] x.t \in {"undefined", "null"} -> FALSE
    [] OTHER -> TRUE

UpperAlphabet == "ABCDEFGHIJKLMNOPQRSTUVWXYZ"

LowerAlphabet == "abcdefghijklmnopqrstuvwxyz"

LowerChar(c) ==
  IF \E i \in 1..Len(UpperAlphabet) : SubSeq(UpperAlphabet, i, i) = c
  THEN LET i == CHOOSE j \in 1..Len(UpperAlphabet) : SubSeq(UpperAlphabet, j, j) = c
       IN SubSeq(LowerAlphabet, i, i)
  ELSE c

RECURSIVE ToLowerCase(_)
\* String.prototype.toLowerCase, character by character
ToLowerCase(s) ==
  IF s = "" THEN ""
  ELSE LowerChar(SubSeq(s, 1, 1)) \o ToLowerCase(SubSeq(s, 2, Len(s)))

\* String.prototype.startsWith
StartsWith(s, prefix) ==
  /\ Len(s) >= Len(prefix)
  /\ SubSeq(s, 1, Len(prefix)) = prefix

\* Set.prototype.has on a value that may not be a string
SetHas(S, x) == x.t = "string" /\ x.v \in S

(***************************************************************************)
(* utils/event-utils.ts: the handler name tables.                          *)
(***************************************************************************)
JSX_CLICK_HANDLERS == {"onClick", "onClickCapture"}

JSX_KEYBOARD_HANDLERS_NoKeyUpCapture ==
  {"onKeyDown", "onKeyDownCapture", "onKeyUp", "onKeyPress", "onKeyPressCapture"}

JSX_KEYBOARD_HANDLERS ==
  {"onKeyDown", "onKeyDownCapture", "onKeyUp", "onKeyUpCapture",
   "onKeyPress", "onKeyPressCapture"}

JSX_MOUSE_HANDLERS_WithClick ==
  {"onClick", "onMouseDown", "onMouseDownCapture", "onMouseUp", "onMouseUpCapture",
   "onMouseOver", "onMouseOverCapture", "onMouseOut", "onMouseOutCapture",
   "onMouseEnter", "onMouseLeave"}

JSX_MOUSE_HANDLERS ==
  {"onMouseDown", "onMouseDownCapture", "onMouseUp", "onMouseUpCapture",
   "onMouseOver", "onMouseOverCapture", "onMouseOut", "onMouseOutCapture",
   "onMouseEnter", "onMouseLeave"}

JSX_FOCUS_HANDLERS == {"onFocus", "onFocusCapture", "onBlur", "onBlurCapture"}

VUE_CLICK_HANDLERS == {"click", "@click", "v-on:click"}

VUE_KEYBOARD_HANDLERS ==
  {"keydown", "keyup", "keypress", "@keydown", "@keyup", "@keypress",
   "v-on:keydown", "v-on:keyup", "v-on:keypress"}

VUE_MOUSE_HANDLERS ==
  {"mousedown", "mouseup", "mouseover", "mouseout", "mouseenter", "mouseleave",
   "@mousedown", "@mouseup", "@mouseover", "@mouseout", "@mouseenter", "@mouseleave",
   "v-on:mousedown", "v-on:mouseup", "v-on:mouseover", "v-on:mouseout",
   "v-on:mouseenter", "v-on:mouseleave"}

VUE_FOCUS_HANDLERS == {"focus", "blur", "@focus", "@blur", "v-on:focus", "v-on:blur"}

JSX_CLICK_HANDLERS_SET == JSX_CLICK_HANDLERS

JSX_KEYBOARD_HANDLERS_SET == JSX_KEYBOARD_HANDLERS

JSX_MOUSE_HANDLERS_SET == JSX_MOUSE_HANDLERS

JSX_FOCUS_HANDLERS_SET == JSX_FOCUS_HANDLERS

JSX_ALL_HANDLERS_SET_NoFocus ==
  JSX_CLICK_HANDLERS \cup JSX_KEYBOARD_HANDLERS \cup JSX_MOUSE_HANDLERS

JSX_ALL_HANDLERS_SET ==
  JSX_CLICK_HANDLERS \cup JSX_KEYBOARD_HANDLERS \cup JSX_MOUSE_HANDLERS
    \cup JSX_FOCUS_HANDLERS

VUE_CLICK_HANDLER_SET == VUE_CLICK_HANDLERS

VUE_CLICK_EVENT_NAMES == {"click"}

VUE_KEYBOARD_HANDLER_SET == VUE_KEYBOARD_HANDLERS

VUE_KEYBOARD_EVENT_NAMES == {"keydown", "keyup", "keypress"}

VUE_MOUSE_HANDLER_SET == VUE_MOUSE_HANDLERS

VUE_MOUSE_EVENT_NAMES ==
  {"mousedown", "mouseup", "mouseover", "mouseout", "mouseenter", "mouseleave"}

VUE_FOCUS_HANDLER_SET == VUE_FOCUS_HANDLERS

VUE_FOCUS_EVENT_NAMES == {"focus", "blur"}

VUE_ALL_HANDLER_SET ==
  VUE_CLICK_HANDLERS \cup VUE_KEYBOARD_HANDLERS \cup VUE_MOUSE_HANDLERS
    \cup VUE_FOCUS_HANDLERS

VUE_ALL_EVENT_NAMES ==
  VUE_CLICK_EVENT_NAMES \cup VUE_KEYBOARD_EVENT_NAMES \cup VUE_MOUSE_EVENT_NAMES
    \cup VUE_FOCUS_EVENT_NAMES

(***************************************************************************)
(* utils/event-utils.ts: the queries.                                      *)
(*                                                                         *)
(* A JSX attribute is [type, name, value]: name is the value of            *)
(* attr.name?.name (a string, undefined, or an object when the name is     *)
(* namespaced).  node.hasAttributes is FALSE for a node without an         *)
(* attribute list (node.attributes?. ... ?? false).                        *)
(***************************************************************************)
\* the predicate of the .some() calls, without its spread test
JSXAttrMatches_NoSpreadTest(attr, handlerSet) ==
  Truthy(attr.name) /\ SetHas(handlerSet, attr.name)

\* attr.type !== 'JSXSpreadAttribute' && attr.name?.name && SET.has(attr.name.name)
JSXAttrMatches(attr, handlerSet) ==
  /\ attr.type # "JSXSpreadAttribute"
  /\ Truthy(attr.name)
  /\ SetHas(handlerSet, attr.name)

JSXSome(n, handlerSet) ==
  IF ~n.hasAttributes THEN FALSE
  ELSE \E i \in DOMAIN n.attributes : JSXAttrMatches(n.attributes[i], handlerSet)

hasJSXClickHandler(n) == JSXSome(n, JSX_CLICK_HANDLERS_SET)

hasJSXKeyboardHandler(n) == JSXSome(n, JSX_KEYBOARD_HANDLERS_SET)

hasJSXMouseHandler(n) == JSXSome(n, JSX_MOUSE_HANDLERS_SET)

hasJSXFocusHandler(n) == JSXSome(n, JSX_FOCUS_HANDLERS_SET)

hasJSXEventHandler(n) == JSXSome(n, JSX_ALL_HANDLERS_SET)

(***************************************************************************)
(* A Vue attribute is [directive, keyName, argument, value]: keyName is    *)
(* attr.key.name, a string for a plain attribute and an identifier object  *)
(* (whose own name is keyName.v) for a directive; argument is              *)
(* attr.key.argument?.name.                                                *)
(***************************************************************************)
VueAttrMatches(attr, handlerSet, eventNames) ==
  IF Truthy(attr.keyName) /\ SetHas(handlerSet, attr.keyName) THEN TRUE
  ELSE IF attr.directive /\ attr.keyName.t = "object" /\ attr.keyName.v = "on"
       THEN Truthy(attr.argument) /\ SetHas(eventNames, attr.argument)
       ELSE FALSE

hasVueEventAttribute(n, handlerSet, eventNames) ==
  IF ~n.hasStartTag \/ ~n.hasAttributes THEN FALSE
  ELSE \E i \in DOMAIN n.attributes :
         VueAttrMatches(n.attributes[i], handlerSet, eventNames)

hasVueClickHandler(n) ==
  hasVueEventAttribute(n, VUE_CLICK_HANDLER_SET, VUE_CLICK_EVENT_NAMES)

hasVueKeyboardHandler(n) ==
  hasVueEventAttribute(n, VUE_KEYBOARD_HANDLER_SET, VUE_KEYBOARD_EVENT_NAMES)

hasVueMouseHandler(n) ==
  hasVueEventAttribute(n, VUE_MOUSE_HANDLER_SET, VUE_MOUSE_EVENT_NAMES)

hasVueFocusHandler(n) ==
  hasVueEventAttribute(n, VUE_FOCUS_HANDLER_SET, VUE_FOCUS_EVENT_NAMES)

hasVueEventHandler(n) ==
  hasVueEventAttribute(n, VUE_ALL_HANDLER_SET, VUE_ALL_EVENT_NAMES)

(***************************************************************************)
(* Syntax trees handed to the classifier.                                  *)
(***************************************************************************)
\* attribute values: none (<a href>), a string literal, {"literal"}, {5}, {expr}
JSXNoValue == [type |-> "null"]

JSXLiteral(s) == [type |-> "Literal", value |-> Str(s)]

JSXExprLiteral(s) ==
  [type |-> "JSXExpressionContainer", expression |-> [type |-> "Literal", value |-> Str(s)]]

JSXExprNumber(s) ==
  [type |-> "JSXExpressionContainer", expression |-> [type |-> "Literal", value |-> Num(s)]]

JSXExprDynamic ==
  [type |-> "JSXExpressionContainer",
   expression |-> [type |-> "Identifier", value |-> JSUndefined]]

JSXAttr(name, value) == [type |-> "JSXAttribute", name |-> Str(name), value |-> value]

\* xlink:href and the like: attr.name.name is a JSXIdentifier object
JSXNamespacedAttr(name, value) ==
  [type |-> "JSXAttribute", name |-> Obj(name), value |-> value]

\* {...props}: no name field
JSXSpread == [type |-> "JSXSpreadAttribute", name |-> JSUndefined, value |-> JSXNoValue]

\* a spread node that carries a name field all the same
JSXSpreadNamed(name) ==
  [type |-> "JSXSpreadAttribute", name |-> Str(name), value |-> JSXNoValue]

JSXIdentifier(name) == [type |-> "JSXIdentifier", name |-> name]

\* <Foo.Bar>: the name is not a JSXIdentifier
JSXMemberExpression(name) == [type |-> "JSXMemberExpression", name |-> name]

JSXElement(name, attrs) ==
  [dialect |-> "jsx", name |-> name, hasAttributes |-> TRUE, attributes |-> attrs]

\* a node whose attributes field is missing
JSXElementNoAttributes(name) ==
  [dialect |-> "jsx", name |-> name, hasAttributes |-> FALSE, attributes |-> <<>>]

VueNoValue == [type |-> "null"]

VueLiteral(s) == [type |-> "VLiteral", value |-> Str(s)]

VueExpr == [type |-> "VExpressionContainer"]

\* name="value"
VueAttr(name, value) ==
  [directive |-> FALSE, keyName |-> Str(name), argument |-> JSUndefined, value |-> value]

\* v-name:argument="expr" (@argument, :argument)
VueDirective(name, argument) ==
  [directive |-> TRUE, keyName |-> Obj(name), argument |-> Str(argument), value |-> VueExpr]

\* v-name="expr" without an argument (v-bind="obj", v-on="handlers"), or with a
\* dynamic argument (@[event]="fn"), whose argument has no name
VueDirectiveNoArg(name) ==
  [directive |-> TRUE, keyName |-> Obj(name), argument |-> JSUndefined, value |-> VueExpr]

VueElement(name, attrs) ==
  [dialect |-> "vue", name |-> name, hasStartTag |-> TRUE, hasAttributes |-> TRUE,
   attributes |-> attrs]

VueElementNoStartTag(name) ==
  [dialect |-> "vue", name |-> name, hasStartTag |-> FALSE, hasAttributes |-> FALSE,
   attributes |-> <<>>]

\* all sequences over S of length at most k
SeqsUpTo(S, k) == UNION {[1..m -> S] : m \in 0..k}

CaptureOf(name) == name \o "Capture"

\* React's event props, independent of the classifier's tables
ReactEventProps ==
  {"onClick", "onKeyDown", "onKeyUp", "onKeyPress", "onMouseDown", "onMouseUp",
   "onMouseOver", "onMouseOut", "onMouseEnter", "onMouseLeave", "onFocus", "onBlur"}

JSXEventAttrNames ==
  ReactEventProps \cup {CaptureOf(n) : n \in ReactEventProps}
    \cup {CaptureOf(CaptureOf(n)) : n \in ReactEventProps}
    \cup {"role", "onclick"}

JSXEventAttrs ==
  {JSXAttr(n, JSXExprDynamic) : n \in JSXEventAttrNames}
    \cup {JSXSpread, JSXSpreadNamed("onClick"), JSXSpreadNamed("onFocus"),
          JSXNamespacedAttr("onClick", JSXExprDynamic),
          [type |-> "JSXAttribute", name |-> JSUndefined, value |-> JSXNoValue]}

\* DOM event names, independent of the classifier's tables
DomEventNames ==
  {"click", "keydown", "keyup", "keypress", "mousedown", "mouseup", "mouseover",
   "mouseout", "mouseenter", "mouseleave", "focus", "blur", "input"}

VueEventAttrNames ==
  DomEventNames \cup {"@" \o e : e \in DomEventNames}
    \cup {"v-on:" \o e : e \in DomEventNames} \cup {"role"}

VueEventAttrs ==
  {VueAttr(n, VueLiteral("fn")) : n \in VueEventAttrNames}
    \cup {VueDirective("on", e) : e \in DomEventNames}
    \cup {VueDirective("bind", "click"), VueDirectiveNoArg("on"), VueDirectiveNoArg("bind")}

\* no component mapping configured
NoSettings == [components |-> {}, mapping |-> <<>>]

NoFiles == <<>>

NoCache == <<>>

(***************************************************************************)
(* The classifier applied to a node: one action per exported query.        *)
(***************************************************************************)
InitEvents ==
  /\ \E m \in 0..MaxAttrs :
       \/ \E as \in [1..m -> JSXEventAttrs] : node = JSXElement(JSXIdentifier("div"), as)
       \/ \E as \in [1..m -> VueEventAttrs] : node = VueElement("div", as)
       \/ node = JSXElementNoAttributes(JSXIdentifier("div"))
       \/ node = VueElementNoStartTag("div")
  /\ settings = NoSettings
  /\ op = "none"
  /\ result = FALSE
  /\ files = NoFiles
  /\ cache = NoCache

Answer(name, value) ==
  /\ op' = name
  /\ result' = value
  /\ UNCHANGED <<node, settings, files, cache>>

CallHasJSXClickHandler ==
  node.dialect = "jsx" /\ Answer("hasJSXClickHandler", hasJSXClickHandler(node))

CallHasJSXKeyboardHandler ==
  node.dialect = "jsx" /\ Answer("hasJSXKeyboardHandler", hasJSXKeyboardHandler(node))

CallHasJSXMouseHandler ==
  node.dialect = "jsx" /\ Answer("hasJSXMouseHandler", hasJSXMouseHandler(node))

CallHasJSXFocusHandler ==
  node.dialect = "jsx" /\ Answer("hasJSXFocusHandler", hasJSXFocusHandler(node))

CallHasJSXEventHandler ==
  node.dialect = "jsx" /\ Answer("hasJSXEventHandler", hasJSXEventHandler(node))

CallHasVueClickHandler ==
  node.dialect = "vue" /\ Answer("hasVueClickHandler", hasVueClickHandler(node))

CallHasVueKeyboardHandler ==
  node.dialect = "vue" /\ Answer("hasVueKeyboardHandler", hasVueKeyboardHandler(node))

CallHasVueMouseHandler ==
  node.dialect = "vue" /\ Answer("hasVueMouseHandler", hasVueMouseHandler(node))

CallHasVueFocusHandler ==
  node.dialect = "vue" /\ Answer("hasVueFocusHandler", hasVueFocusHandler(node))

CallHasVueEventHandler ==
  node.dialect = "vue" /\ Answer("hasVueEventHandler", hasVueEventHandler(node))

NextEvents ==
  \/ CallHasJSXClickHandler
  \/ CallHasJSXKeyboardHandler
  \/ CallHasJSXMouseHandler
  \/ CallHasJSXFocusHandler
  \/ CallHasJSXEventHandler
  \/ CallHasVueClickHandler
  \/ CallHasVueKeyboardHandler
  \/ CallHasVueMouseHandler
  \/ CallHasVueFocusHandler
  \/ CallHasVueEventHandler

SpecEvents == InitEvents /\ [][NextEvents]_vars

(***************************************************************************)
(* utils/jsx-ast-utils and utils/component-mapping (attribute resolver and *)
(* component-role resolver).  Their source is not part of the files at     *)
(* hand; they are modelled from the design description: a spread never     *)
(* counts as an attribute, names are matched exactly, and the resolver     *)
(* follows the four steps of resolveNativeTag.                             *)
(***************************************************************************)
NoAttr == [type |-> "none"]

\* index of the first JSXAttribute named `name`, 0 when there is none
JSXAttributeIndex(n, name) ==
  IF ~n.hasAttributes THEN 0
  ELSE LET hits == {i \in DOMAIN n.attributes :
                      /\ n.attributes[i].type = "JSXAttribute"
                      /\ n.attributes[i].name = Str(name)}
       IN IF hits = {} THEN 0 ELSE CHOOSE i \in hits : \A j \in hits : i <= j

getJSXAttribute(n, name) ==
  IF JSXAttributeIndex(n, name) = 0 THEN NoAttr
  ELSE n.attributes[JSXAttributeIndex(n, name)]

hasJSXAttribute(n, name) == JSXAttributeIndex(n, name) # 0

\* the HTML vocabulary the resolver recognizes as native
NATIVE_TAGS ==
  {"a", "abbr", "address", "area", "article", "aside", "audio", "b", "blockquote",
   "body", "button", "caption", "code", "dd", "details", "dialog", "div", "dl", "dt",
   "em", "fieldset", "figcaption", "figure", "footer", "form", "h1", "h2", "h3", "h4",
   "h5", "h6", "header", "hr", "html", "i", "iframe", "img", "input", "label", "legend",
   "li", "main", "mark", "meter", "nav", "ol", "optgroup", "option", "p", "pre",
   "progress", "section", "select", "small", "span", "strong", "sub", "summary", "sup",
   "table", "tbody", "td", "textarea", "tfoot", "th", "thead", "time", "tr", "ul",
   "video"}

DEFAULT_POLYMORPHIC_PROPS == {"as", "component"}

\* one entry of the component mapping
MappingEntry(nativeTag) ==
  [nativeTag |-> nativeTag, overridesProps |-> FALSE, polymorphicPropNames |-> {}]

MappingEntryWithProps(nativeTag, props) ==
  [nativeTag |-> nativeTag, overridesProps |-> TRUE, polymorphicPropNames |-> props]

PolymorphicPropNames(tag, cfg) ==
  IF tag \in cfg.components /\ cfg.mapping[tag].overridesProps
  THEN cfg.mapping[tag].polymorphicPropNames
  ELSE DEFAULT_POLYMORPHIC_PROPS

\* the static string an attribute value resolves to, JSUndefined when it has none
JSXStaticString(value) ==
  IF value.type = "Literal" /\ value.value.t = "string" THEN value.value
  ELSE IF /\ value.type = "JSXExpressionContainer"
          /\ value.expression.type = "Literal"
          /\ value.expression.value.t = "string"
       THEN value.expression.value
       ELSE JSUndefined

\* step 3: the polymorphic props, in attribute order, that name a native tag or a
\* mapped component
PolymorphicHits(n, cfg) ==
  {i \in DOMAIN n.attributes :
     /\ n.attributes[i].type = "JSXAttribute"
     /\ n.attributes[i].name.t = "string"
     /\ n.attributes[i].name.v \in PolymorphicPropNames(n.name.name, cfg)
     /\ LET v == JSXStaticString(n.attributes[i].value)
        IN v.t = "string" /\ (v.v \in NATIVE_TAGS \/ v.v \in cfg.components)}

PolymorphicTarget(n, cfg, i) ==
  LET v == JSXStaticString(n.attributes[i].value).v
  IN IF v \in NATIVE_TAGS THEN v ELSE cfg.mapping[v].nativeTag

\* the resolver with the mapping entry taking precedence over a polymorphic prop
getElementRoleFromJSX_MappingFirst(n, cfg) ==
  IF n.name.type # "JSXIdentifier" THEN JSNull
  ELSE IF n.name.name \in NATIVE_TAGS THEN Str(n.name.name)
  ELSE IF n.name.name \in cfg.components THEN Str(cfg.mapping[n.name.name].nativeTag)
  ELSE LET hits == IF n.hasAttributes THEN PolymorphicHits(n, cfg) ELSE {}
       IN IF hits # {}
          THEN Str(PolymorphicTarget(n, cfg, CHOOSE i \in hits : \A j \in hits : i <= j))
          ELSE JSNull

\* resolveNativeTag: a native tag resolves to itself; otherwise a polymorphic prop
\* wins over the mapping entry; otherwise absent (null)
getElementRoleFromJSX(n, cfg) ==
  IF n.name.type # "JSXIdentifier" THEN JSNull
  ELSE IF n.name.name \in NATIVE_TAGS THEN Str(n.name.name)
  ELSE LET hits == IF n.hasAttributes THEN PolymorphicHits(n, cfg) ELSE {}
       IN IF hits # {}
          THEN Str(PolymorphicTarget(n, cfg, CHOOSE i \in hits : \A j \in hits : i <= j))
          ELSE IF n.name.name \in cfg.components
               THEN Str(cfg.mapping[n.name.name].nativeTag)
               ELSE JSNull

\* isElementLike(node, context, tag): the node resolves to `tag`
isElementLike(n, cfg, tag) == getElementRoleFromJSX(n, cfg) = Str(tag)

(***************************************************************************)
(* The resolver applied to a node under a component mapping.               *)
(***************************************************************************)
\* longest attribute list of an element handed to the resolver
MaxPropAttrs == 2

Mapping(components, mapping) == [components |-> components, mapping |-> mapping]

ButtonMapping == Mapping({"Button"}, [c \in {"Button"} |-> MappingEntry("button")])

NavMapping == Mapping({"Nav"}, [c \in {"Nav"} |-> MappingEntry("nav")])

DesignSystemMapping ==
  Mapping({"Button", "Link", "Nav"},
          [c \in {"Button", "Link", "Nav"} |->
             CASE c = "Button" -> MappingEntryWithProps("button", {"renderAs"})
               [] c = "Link" -> MappingEntry("a")
               [] c = "Nav" -> MappingEntry("nav")])

ResolverSettings == {NoSettings, ButtonMapping, NavMapping, DesignSystemMapping}

ResolverAttrs ==
  {JSXAttr("as", JSXLiteral("a")), JSXAttr("as", JSXLiteral("Link")),
   JSXAttr("as", JSXLiteral("bogus")), JSXAttr("as", JSXExprLiteral("div")),
   JSXAttr("as", JSXExprDynamic), JSXAttr("component", JSXLiteral("nav")),
   JSXAttr("renderAs", JSXLiteral("a")), JSXAttr("role", JSXLiteral("navigation")),
   JSXSpread}

ResolverNames ==
  {JSXIdentifier(t) : t \in {"button", "a", "Button", "Nav", "Link", "Widget"}}
    \cup {JSXMemberExpression("Button")}

InitResolve ==
  /\ \E m \in 0..MaxPropAttrs : \E nm \in ResolverNames : \E as \in [1..m -> ResolverAttrs] :
       node = JSXElement(nm, as)
  /\ settings \in ResolverSettings
  /\ op = "none"
  /\ result = FALSE
  /\ files = NoFiles
  /\ cache = NoCache

CallGetElementRoleFromJSX ==
  /\ node.dialect = "jsx"
  /\ Answer("getElementRoleFromJSX", getElementRoleFromJSX(node, settings))

CallIsElementLike ==
  /\ node.dialect = "jsx"
  /\ \E tag \in {"a", "button"} :
       Answer("isElementLike", <<tag, isElementLike(node, settings, tag)>>)

NextResolve == CallGetElementRoleFromJSX \/ CallIsElementLike

SpecResolve == InitResolve /\ [][NextResolve]_vars

(***************************************************************************)
(* runtime-comment: the per-file comment cache.  Its source is not part of *)
(* the files at hand; it is modelled from the design description: the      *)
(* first query against a file extracts its comments, sorts them by start   *)
(* position and stores them under the file; later queries reuse the stored *)
(* sequence; the entry goes away with the file (weak association).         *)
(***************************************************************************)
\* source positions are 1..MaxPos
MaxPos == 3

\* most comments in one file
MaxComments == 2

\* largest proximity window
MaxWindow == 1

FileIds == {"a.tsx", "b.vue"}

Comment(startPos) ==
  [text |-> "c", startPos |-> startPos, endPos |-> startPos]

\* comment lists as the parser hands them over: distinct positions, any order
CommentLists ==
  {cs \in SeqsUpTo({Comment(q) : q \in 1..MaxPos}, MaxComments) :
     \A i \in DOMAIN cs : \A j \in DOMAIN cs : i # j => cs[i].startPos # cs[j].startPos}

\* getAllComments(file)
getAllComments(f) == files[f]

RECURSIVE InsertByStartPos(_, _)
InsertByStartPos(c, sorted) ==
  IF sorted = <<>> THEN <<c>>
  ELSE IF c.startPos <= Head(sorted).startPos THEN <<c>> \o sorted
       ELSE <<Head(sorted)>> \o InsertByStartPos(c, Tail(sorted))

RECURSIVE SortByStartPos(_)
\* comments.sort((a, b) => a.startPos - b.startPos), a stable sort
SortByStartPos(cs) ==
  IF cs = <<>> THEN <<>>
  ELSE InsertByStartPos(Head(cs), SortByStartPos(Tail(cs)))

NotCached == [cached |-> FALSE, comments |-> <<>>]

Cached(cs) == [cached |-> TRUE, comments |-> cs]

\* a cache that hands out whichever entry it holds, whatever the file
CacheEntry_AnyFile(f) ==
  IF \E g \in FileIds : cache[g].cached
  THEN cache[CHOOSE g \in FileIds : cache[g].cached]
  ELSE NotCached

\* the entry stored under file f
CacheEntry(f) == cache[f]

\* the sorted comments of f: the stored sequence, or a fresh extraction
SortedComments(f) ==
  IF CacheEntry(f).cached THEN CacheEntry(f).comments
  ELSE SortByStartPos(getAllComments(f))

RECURSIVE ScanFrom(_, _, _)
\* the early-exit loop: stop at the first comment past limit
ScanFrom(sorted, i, limit) ==
  IF i > Len(sorted) THEN <<>>
  ELSE IF sorted[i].startPos > limit THEN <<>>
       ELSE <<sorted[i]>> \o ScanFrom(sorted, i + 1, limit)

\* index of the first comment not strictly before position p (Len + 1 if none)
FirstNotBefore(sorted, p) ==
  LET later == {i \in DOMAIN sorted : sorted[i].startPos >= p}
  IN IF later = {} THEN Len(sorted) + 1 ELSE CHOOSE i \in later : \A j \in later : i <= j

\* a scan that starts at the head of the sequence instead of at the node
ProximityScan_FromHead(sorted, startPos, endPos, window) ==
  ScanFrom(sorted, 1, endPos + window)

ProximityScan(sorted, startPos, endPos, window) ==
  ScanFrom(sorted, FirstNotBefore(sorted, startPos), endPos + window)

InitComments ==
  /\ node = NoAttr
  /\ settings = NoSettings
  /\ op = "none"
  /\ result = FALSE
  /\ files \in {fs \in [FileIds -> CommentLists] : Len(fs["b.vue"]) <= 1}
  /\ cache = [f \in FileIds |-> NotCached]

\* getCommentsNear(node, window) for a node of file f
GetCommentsNear(f, startPos, endPos, window) ==
  /\ op' = "getCommentsNear"
  /\ node' = [file |-> f, startPos |-> startPos, endPos |-> endPos, window |-> window]
  /\ cache' = [cache EXCEPT ![f] = Cached(SortedComments(f))]
  /\ result' = ProximityScan(SortedComments(f), startPos, endPos, window)
  /\ UNCHANGED <<settings, files>>

\* the file's root is no longer referenced: its entry is reclaimed
Reclaim(f) ==
  /\ cache[f].cached
  /\ cache' = [cache EXCEPT ![f] = NotCached]
  /\ UNCHANGED <<node, settings, op, result, files>>

NextComments ==
  \/ \E f \in FileIds : \E s \in 1..MaxPos : \E e \in s..MaxPos : \E w \in 0..MaxWindow :
       GetCommentsNear(f, s, e, w)
  \/ \E f \in FileIds : Reclaim(f)

SpecComments == InitComments /\ [][NextComments]_vars

(***************************************************************************)
(* What the rules share.  utils/vue-ast-utils is not part of the files at  *)
(* hand; it is modelled from the design description: an attribute is found *)
(* by its name, written plainly (name="v") or bound (:name="expr"), and a  *)
(* v-bind without an argument (a spread) never counts as the attribute.    *)
(***************************************************************************)
\* longest attribute list of an element handed to a rule
MaxRuleAttrs == 3

\* index of the first attribute named `name`, 0 when there is none
VueAttributeIndex(n, name) ==
  IF ~n.hasStartTag \/ ~n.hasAttributes THEN 0
  ELSE LET hits == {i \in DOMAIN n.attributes :
                      \/ /\ ~n.attributes[i].directive
                         /\ n.attributes[i].keyName = Str(name)
                      \/ /\ n.attributes[i].directive
                         /\ n.attributes[i].keyName = Obj("bind")
                         /\ n.attributes[i].argument = Str(name)}
       IN IF hits = {} THEN 0 ELSE CHOOSE i \in hits : \A j \in hits : i <= j

getVueAttribute(n, name) ==
  IF VueAttributeIndex(n, name) = 0 THEN NoAttr
  ELSE n.attributes[VueAttributeIndex(n, name)]

hasVueAttribute(n, name) == VueAttributeIndex(n, name) # 0

\* attr?.value?.value of a Vue attribute: the literal's string, else undefined
VueValue(attr) ==
  IF attr = NoAttr THEN JSUndefined
  ELSE IF attr.value.type = "VLiteral" THEN attr.value.value
       ELSE JSUndefined

\* x?.toLowerCase()
OptionalToLowerCase(x) ==
  IF x.t = "string" THEN Str(ToLowerCase(x.v)) ELSE JSUndefined

\* the lower-cased string of a JSX attribute value written as a string literal or
\* as a string literal inside an expression container, null otherwise
JSXLowerCasedString(value) ==
  IF value.type = "Literal" /\ value.value.t = "string"
  THEN Str(ToLowerCase(value.value.v))
  ELSE IF value.type = "JSXExpressionContainer"
       THEN IF value.expression.type = "Literal" /\ value.expression.value.t = "string"
            THEN Str(ToLowerCase(value.expression.value.v))
            ELSE JSNull
       ELSE JSNull

\* context.report({node, messageId, data}): target says which node is reported,
\* data is the sequence of <<placeholder, string>> pairs
Report(messageId, target, data) ==
  [messageId |-> messageId, node |-> target, data |-> data, suggest |-> <<>>]

\* context.report with a suggest array
ReportWithSuggestion(messageId, target, data, suggest) ==
  [messageId |-> messageId, node |-> target, data |-> data, suggest |-> suggest]

\* a rule visits the node: result is the sequence of its diagnostics
Visit(rule, diagnostics) == Answer(rule, diagnostics)

\* {Widget: {nativeTag: 'div'}}
WidgetMapping == Mapping({"Widget"}, [c \in {"Widget"} |-> MappingEntry("div")])

(***************************************************************************)
(* Rule no-noninteractive-element-to-interactive-role.                     *)
(***************************************************************************)
NON_INTERACTIVE_ELEMENTS ==
  {"div", "span", "section", "article", "aside", "footer", "header", "nav", "main",
   "p", "ul", "ol", "li", "dl", "dt", "dd",
   "table", "thead", "tbody", "tfoot", "tr", "th", "td", "caption",
   "figure", "figcaption", "blockquote", "pre", "code", "em", "strong",
   "small", "mark", "sub", "sup", "address", "time", "abbr",
   "h1", "h2", "h3", "h4", "h5", "h6",
   "img", "hr"}

INTERACTIVE_ROLES ==
  {"button", "link", "checkbox", "radio", "textbox", "combobox", "listbox",
   "option", "menuitem", "menuitemcheckbox", "menuitemradio", "slider",
   "spinbutton", "switch", "tab", "treeitem", "gridcell", "searchbox",
   "scrollbar"}

\* the rule's own JSX_KEYBOARD_HANDLERS (not the table of event-utils)
InteractiveRole_JSX_KEYBOARD_HANDLERS == {"onKeyDown", "onKeyUp", "onKeyPress"}

\* the rule's own hasJSXKeyboardHandler
InteractiveRole_hasJSXKeyboardHandler(n) ==
  \E handler \in InteractiveRole_JSX_KEYBOARD_HANDLERS : hasJSXAttribute(n, handler)

\* the rule's own hasVueKeyboardHandler: v-on directives only
InteractiveRole_hasVueKeyboardHandler(n) ==
  IF ~n.hasStartTag \/ ~n.hasAttributes THEN FALSE
  ELSE \E i \in DOMAIN n.attributes :
         /\ n.attributes[i].directive
         /\ n.attributes[i].keyName = Obj("on")
         /\ SetHas({"keydown", "keyup", "keypress"}, n.attributes[i].argument)

InteractiveRole_JSXOpeningElement(n, cfg) ==
  LET tagName == getElementRoleFromJSX(n, cfg)
      roleAttr == getJSXAttribute(n, "role")
      role == JSXLowerCasedString(roleAttr.value)
      hasTabIndex == hasJSXAttribute(n, "tabIndex") \/ hasJSXAttribute(n, "tabindex")
      hasKeyboard == InteractiveRole_hasJSXKeyboardHandler(n)
  IN IF ~Truthy(tagName) \/ ~SetHas(NON_INTERACTIVE_ELEMENTS, tagName) THEN <<>>
     ELSE IF roleAttr = NoAttr THEN <<>>
     ELSE IF ~Truthy(role) \/ ~SetHas(INTERACTIVE_ROLES, role) THEN <<>>
     ELSE IF ~hasTabIndex \/ ~hasKeyboard
          THEN <<Report("noNoninteractiveToInteractive", "element",
                        <<<<"element", tagName.v>>, <<"role", role.v>>>>)>>
          ELSE <<>>

InteractiveRole_VElement(n) ==
  LET tagName == ToLowerCase(n.name)
      roleAttr == getVueAttribute(n, "role")
      role == OptionalToLowerCase(VueValue(roleAttr))
      hasTabIndex == hasVueAttribute(n, "tabindex")
      hasKeyboard == InteractiveRole_hasVueKeyboardHandler(n)
  IN IF tagName \notin NON_INTERACTIVE_ELEMENTS THEN <<>>
     ELSE IF ~Truthy(role) \/ ~SetHas(INTERACTIVE_ROLES, role) THEN <<>>
     ELSE IF ~hasTabIndex \/ ~hasKeyboard
          THEN <<Report("noNoninteractiveToInteractive", "element",
                        <<<<"element", tagName>>, <<"role", role.v>>>>)>>
          ELSE <<>>

\* the elements the rule is run on
InteractiveRoleJSXAttrs ==
  {JSXAttr("role", JSXLiteral("button")), JSXAttr("role", JSXLiteral("BUTTON")),
   JSXAttr("role", JSXExprLiteral("link")), JSXAttr("role", JSXLiteral("banner")),
   JSXAttr("role", JSXExprDynamic),
   JSXAttr("tabIndex", JSXExprNumber("0")), JSXAttr("tabindex", JSXLiteral("0")),
   JSXAttr("onKeyDown", JSXExprDynamic), JSXAttr("onKeyDownCapture", JSXExprDynamic),
   JSXAttr("onClick", JSXExprDynamic), JSXAttr("as", JSXLiteral("span")), JSXSpread}

InteractiveRoleJSXNames ==
  {JSXIdentifier(t) : t \in {"div", "button", "Widget", "Card"}}
    \cup {JSXMemberExpression("UI.Box")}

InteractiveRoleVueNames == {"div", "button", "DIV"}

InteractiveRoleVueAttrs ==
  {VueAttr("role", VueLiteral("button")), VueAttr("role", VueLiteral("BUTTON")),
   VueAttr("role", VueLiteral("banner")), VueAttr("role", VueNoValue),
   VueDirective("bind", "role"), VueAttr("tabindex", VueLiteral("0")),
   VueDirective("bind", "tabindex"), VueDirective("on", "keydown"),
   VueDirective("on", "click"), VueDirectiveNoArg("bind")}

InitInteractiveRole ==
  /\ \E m \in 0..MaxRuleAttrs :
       \/ \E nm \in InteractiveRoleJSXNames : \E as \in [1..m -> InteractiveRoleJSXAttrs] :
            node = JSXElement(nm, as)
       \/ \E nm \in InteractiveRoleVueNames : \E as \in [1..m -> InteractiveRoleVueAttrs] :
            node = VueElement(nm, as)
  /\ settings \in {NoSettings, WidgetMapping}
  /\ op = "none"
  /\ result = FALSE
  /\ files = NoFiles
  /\ cache = NoCache

InteractiveRoleVisitJSX ==
  /\ node.dialect = "jsx"
  /\ Visit("no-noninteractive-element-to-interactive-role",
           InteractiveRole_JSXOpeningElement(node, settings))

InteractiveRoleVisitVue ==
  /\ node.dialect = "vue"
  /\ Visit("no-noninteractive-element-to-interactive-role", InteractiveRole_VElement(node))

NextInteractiveRole == InteractiveRoleVisitJSX \/ InteractiveRoleVisitVue

SpecInteractiveRole == InitInteractiveRole /\ [][NextInteractiveRole]_vars

(***************************************************************************)
(* Rule anchor-is-valid.                                                   *)
(***************************************************************************)
INVALID_HREFS == {"", "#"}

isInvalidHref(value) ==
  IF value \in INVALID_HREFS THEN TRUE
  ELSE IF StartsWith(ToLowerCase(value), "javascript:") THEN TRUE
       ELSE FALSE

AnchorIsValid_JSXOpeningElement(n, cfg) ==
  IF n.name.type # "JSXIdentifier" THEN <<>>
  ELSE IF n.name.name # "a" /\ ~isElementLike(n, cfg, "a") THEN <<>>
  ELSE LET hrefAttr == getJSXAttribute(n, "href")
           hasOnClick == hasJSXAttribute(n, "onClick")
       IN IF hrefAttr = NoAttr
          THEN IF hasOnClick THEN <<Report("preferButton", "element", <<>>)>>
               ELSE <<Report("missingHref", "element", <<>>)>>
          ELSE IF hrefAttr.value.type = "Literal" /\ hrefAttr.value.value.t = "string"
               THEN IF isInvalidHref(hrefAttr.value.value.v)
                    THEN <<Report("invalidHref", "element",
                                  <<<<"href", hrefAttr.value.value.v>>>>)>>
                    ELSE <<>>
               ELSE <<>>

AnchorIsValid_VElement(n) ==
  IF n.name # "a" THEN <<>>
  ELSE LET hrefAttr == getVueAttribute(n, "href")
           hasClickHandler ==
             /\ n.hasStartTag
             /\ n.hasAttributes
             /\ \E i \in DOMAIN n.attributes :
                  /\ n.attributes[i].directive
                  /\ n.attributes[i].keyName = Obj("on")
                  /\ n.attributes[i].argument = Str("click")
           hrefValue == VueValue(hrefAttr)
       IN IF hrefAttr = NoAttr
          THEN IF hasClickHandler THEN <<Report("preferButton", "element", <<>>)>>
               ELSE <<Report("missingHref", "element", <<>>)>>
          ELSE IF hrefValue.t = "string" /\ isInvalidHref(hrefValue.v)
               THEN <<Report("invalidHref", "element", <<<<"href", hrefValue.v>>>>)>>
               ELSE <<>>

\* href values written in the elements the rule is run on
HrefValues == {"", "#", "javascript:void(0)", "JavaScript:void(0)", "/home"}

AnchorJSXAttrs ==
  {JSXAttr("href", JSXLiteral(v)) : v \in HrefValues}
    \cup {JSXAttr("href", JSXExprLiteral("#")), JSXAttr("href", JSXExprLiteral("/home")),
          JSXAttr("href", JSXExprDynamic), JSXAttr("href", JSXNoValue),
          JSXAttr("onClick", JSXExprDynamic), JSXAttr("onClickCapture", JSXExprDynamic),
          JSXSpread}

AnchorJSXNames ==
  {JSXIdentifier(t) : t \in {"a", "Link", "div"}} \cup {JSXMemberExpression("UI.Link")}

AnchorVueNames == {"a", "div"}

AnchorVueAttrs ==
  {VueAttr("href", VueLiteral(v)) : v \in HrefValues}
    \cup {VueAttr("href", VueNoValue), VueDirective("bind", "href"),
          VueDirective("on", "click"), VueDirectiveNoArg("bind")}

InitAnchor ==
  /\ \E m \in 0..MaxRuleAttrs :
       \/ \E nm \in AnchorJSXNames : \E as \in [1..m -> AnchorJSXAttrs] :
            node = JSXElement(nm, as)
       \/ \E nm \in AnchorVueNames : \E as \in [1..m -> AnchorVueAttrs] :
            node = VueElement(nm, as)
  /\ settings \in {NoSettings, DesignSystemMapping}
  /\ op = "none"
  /\ result = FALSE
  /\ files = NoFiles
  /\ cache = NoCache

AnchorVisitJSX ==
  /\ node.dialect = "jsx"
  /\ Visit("anchor-is-valid", AnchorIsValid_JSXOpeningElement(node, settings))

AnchorVisitVue ==
  /\ node.dialect = "vue"
  /\ Visit("anchor-is-valid", AnchorIsValid_VElement(node))

NextAnchor == AnchorVisitJSX \/ AnchorVisitVue

SpecAnchor == InitAnchor /\ [][NextAnchor]_vars

(***************************************************************************)
(* Rule scope.                                                             *)
(***************************************************************************)
VALID_SCOPE_VALUES_NoRowgroup == {"col", "row", "colgroup"}

VALID_SCOPE_VALUES == {"col", "row", "colgroup", "rowgroup"}

\* the visitor keeping quiet once the pass has a diagnostic to show
Scope_JSXOpeningElement_OncePerPass(n) ==
  IF result # <<>> THEN <<>>
  ELSE IF n.name.type # "JSXIdentifier" THEN <<>>
  ELSE IF ~hasJSXAttribute(n, "scope") THEN <<>>
  ELSE LET tagName == ToLowerCase(n.name.name)
           scopeAttr == getJSXAttribute(n, "scope")
           scopeValue == JSXLowerCasedString(scopeAttr.value)
       IN IF tagName # "th"
          THEN <<Report("invalidElement", "element", <<<<"element", tagName>>>>)>>
          ELSE IF scopeAttr.value.type = "null" THEN <<>>
          ELSE IF scopeValue # JSNull /\ ~SetHas(VALID_SCOPE_VALUES, scopeValue)
               THEN <<Report("invalidValue", "attribute", <<<<"value", scopeValue.v>>>>)>>
               ELSE <<>>

Scope_JSXOpeningElement(n) ==
  IF n.name.type # "JSXIdentifier" THEN <<>>
  ELSE IF ~hasJSXAttribute(n, "scope") THEN <<>>
  ELSE LET tagName == ToLowerCase(n.name.name)
           scopeAttr == getJSXAttribute(n, "scope")
           scopeValue == JSXLowerCasedString(scopeAttr.value)
       IN IF tagName # "th"
          THEN <<Report("invalidElement", "element", <<<<"element", tagName>>>>)>>
          ELSE IF scopeAttr.value.type = "null" THEN <<>>
          ELSE IF scopeValue # JSNull /\ ~SetHas(VALID_SCOPE_VALUES, scopeValue)
               THEN <<Report("invalidValue", "attribute", <<<<"value", scopeValue.v>>>>)>>
               ELSE <<>>

\* the visitor going on to the value test after reporting the element
Scope_VElement_NoReturn(n) ==
  LET tagName == ToLowerCase(n.name)
      scopeAttr == getVueAttribute(n, "scope")
      scopeValue == OptionalToLowerCase(VueValue(scopeAttr))
      onElement == IF tagName # "th"
                   THEN <<Report("invalidElement", "element", <<<<"element", tagName>>>>)>>
                   ELSE <<>>
      onValue == IF /\ scopeValue # JSUndefined
                    /\ scopeValue # JSNull
                    /\ ~SetHas(VALID_SCOPE_VALUES, scopeValue)
                 THEN <<Report("invalidValue", "attribute", <<<<"value", scopeValue.v>>>>)>>
                 ELSE <<>>
  IN IF ~hasVueAttribute(n, "scope") THEN <<>> ELSE onElement \o onValue

Scope_VElement(n) ==
  LET tagName == ToLowerCase(n.name)
      scopeAttr == getVueAttribute(n, "scope")
      scopeValue == OptionalToLowerCase(VueValue(scopeAttr))
  IN IF ~hasVueAttribute(n, "scope") THEN <<>>
     ELSE IF tagName # "th"
          THEN <<Report("invalidElement", "element", <<<<"element", tagName>>>>)>>
          ELSE IF /\ scopeValue # JSUndefined
                  /\ scopeValue # JSNull
                  /\ ~SetHas(VALID_SCOPE_VALUES, scopeValue)
               THEN <<Report("invalidValue", "attribute", <<<<"value", scopeValue.v>>>>)>>
               ELSE <<>>

\* scope values written in the elements the rule is run on
ScopeValues == {"col", "rowgroup", "COL", "column", ""}

ScopeJSXAttrs ==
  {JSXAttr("scope", JSXLiteral(v)) : v \in ScopeValues}
    \cup {JSXAttr("scope", JSXExprLiteral("Row")), JSXAttr("scope", JSXExprLiteral("both")),
          JSXAttr("scope", JSXExprNumber("1")), JSXAttr("scope", JSXExprDynamic),
          JSXAttr("scope", JSXNoValue), JSXAttr("id", JSXLiteral("h"))}

ScopeJSXNames ==
  {JSXIdentifier(t) : t \in {"th", "td", "Th", "Cell"}}
    \cup {JSXMemberExpression("Table.Cell")}

ScopeVueNames == {"th", "td", "TH"}

ScopeVueAttrs ==
  {VueAttr("scope", VueLiteral(v)) : v \in ScopeValues}
    \cup {VueAttr("scope", VueNoValue), VueDirective("bind", "scope"),
          VueAttr("id", VueLiteral("h")), VueDirectiveNoArg("bind")}

InitScope ==
  /\ \E m \in 0..MaxRuleAttrs :
       \/ \E nm \in ScopeJSXNames : \E as \in [1..m -> ScopeJSXAttrs] :
            node = JSXElement(nm, as)
       \/ \E nm \in ScopeVueNames : \E as \in [1..m -> ScopeVueAttrs] :
            node = VueElement(nm, as)
  /\ settings = NoSettings
  /\ op = "none"
  /\ result = FALSE
  /\ files = NoFiles
  /\ cache = NoCache

ScopeVisitJSX == node.dialect = "jsx" /\ Visit("scope", Scope_JSXOpeningElement(node))

ScopeVisitVue == node.dialect = "vue" /\ Visit("scope", Scope_VElement(node))

NextScope == ScopeVisitJSX \/ ScopeVisitVue

SpecScope == InitScope /\ [][NextScope]_vars

(***************************************************************************)
(* Rule no-redundant-roles.                                                *)
(***************************************************************************)
Digits == "0123456789"

IsDigit(c) == \E i \in 1..Len(Digits) : SubSeq(Digits, i, i) = c

DigitValue(c) == (CHOOSE i \in 1..Len(Digits) : SubSeq(Digits, i, i) = c) - 1

NaN == [nan |-> TRUE, n |-> 0]

RECURSIVE ParseDigits(_, _, _)
\* the leading digits of s as a number, NaN when s does not start with a digit
ParseDigits(s, acc, seen) ==
  IF s = "" \/ ~IsDigit(SubSeq(s, 1, 1))
  THEN IF seen THEN [nan |-> FALSE, n |-> acc] ELSE NaN
  ELSE ParseDigits(SubSeq(s, 2, Len(s)), acc * 10 + DigitValue(SubSeq(s, 1, 1)), TRUE)

RECURSIVE TrimStart(_)
TrimStart(s) ==
  IF s # "" /\ SubSeq(s, 1, 1) = " " THEN TrimStart(SubSeq(s, 2, Len(s))) ELSE s

\* parseInt(s, 10): leading blanks, an optional sign, then the leading digits
ParseInt(s) ==
  LET t == TrimStart(s)
  IN IF t # "" /\ SubSeq(t, 1, 1) = "-"
     THEN LET p == ParseDigits(SubSeq(t, 2, Len(t)), 0, FALSE)
          IN IF p.nan THEN NaN ELSE [nan |-> FALSE, n |-> 0 - p.n]
     ELSE IF t # "" /\ SubSeq(t, 1, 1) = "+"
          THEN ParseDigits(SubSeq(t, 2, Len(t)), 0, FALSE)
          ELSE ParseDigits(t, 0, FALSE)

\* x ?? fallback
Coalesce(x, fallback) == IF x.t \in {"null", "undefined"} THEN fallback ELSE x

\* the attribute names getImplicitRole asks its callbacks about
QueriedAttributes == {"href", "type", "size", "multiple", "aria-label", "aria-labelledby"}

\* getAttr and hasAttr are the two callbacks, as functions of the attribute name
getImplicitRole(tagName, getAttr, hasAttr) ==
  CASE tagName = "button" -> Str("button")
    [] tagName = "nav" -> Str("navigation")
    [] tagName = "main" -> Str("main")
    [] tagName = "aside" -> Str("complementary")
    [] tagName \in {"ul", "ol"} -> Str("list")
    [] tagName = "li" -> Str("listitem")
    [] tagName = "img" -> Str("img")
    [] tagName \in {"h1", "h2", "h3", "h4", "h5", "h6"} -> Str("heading")
    [] tagName = "article" -> Str("article")
    [] tagName = "table" -> Str("table")
    [] tagName = "tr" -> Str("row")
    [] tagName = "textarea" -> Str("textbox")
    [] tagName = "a" ->
         LET href == getAttr["href"]
         IN IF /\ href # JSNull
               /\ href.v # ""
               /\ href.v # "#"
               /\ ~StartsWith(ToLowerCase(href.v), "javascript:")
            THEN Str("link")
            ELSE JSNull
    [] tagName = "input" ->
         LET type == ToLowerCase(Coalesce(getAttr["type"], Str("text")).v)
         IN CASE type = "checkbox" -> Str("checkbox")
              [] type = "radio" -> Str("radio")
              [] type = "range" -> Str("slider")
              [] type = "number" -> Str("spinbutton")
              [] type \in {"text", "email", "password", "search", "tel", "url"} ->
                   Str("textbox")
              [] OTHER -> JSNull
    [] tagName = "select" ->
         IF hasAttr["multiple"] THEN Str("listbox")
         ELSE LET size == ParseInt(Coalesce(getAttr["size"], Str("1")).v)
              IN IF ~size.nan /\ size.n > 1 THEN Str("listbox") ELSE Str("combobox")
    [] tagName \in {"section", "form"} ->
         IF hasAttr["aria-label"] \/ hasAttr["aria-labelledby"]
         THEN IF tagName = "section" THEN Str("region") ELSE Str("form")
         ELSE JSNull
    [] OTHER -> JSNull

\* (name) => { const attr = getJSXAttribute(jsxNode, name); ... }
RedundantRoles_JSXGetAttr(n) ==
  [name \in QueriedAttributes |->
     LET attr == getJSXAttribute(n, name)
     IN IF attr = NoAttr THEN JSNull
        ELSE IF attr.value.type = "Literal" THEN Str(attr.value.value.v)
             ELSE Str("")]

\* (name) => hasJSXAttribute(jsxNode, name)
RedundantRoles_JSXHasAttr(n) == [name \in QueriedAttributes |-> hasJSXAttribute(n, name)]

\* (name) => getVueAttribute(vueNode, name)?.value?.value ?? null
RedundantRoles_VueGetAttr(n) ==
  [name \in QueriedAttributes |-> Coalesce(VueValue(getVueAttribute(n, name)), JSNull)]

\* (name) => hasVueAttribute(vueNode, name)
RedundantRoles_VueHasAttr(n) == [name \in QueriedAttributes |-> hasVueAttribute(n, name)]

\* the visitor comparing the role as written, without lower-casing it
RedundantRoles_JSXOpeningElement_CaseSensitive(n, cfg) ==
  LET tagName == getElementRoleFromJSX(n, cfg)
      roleAttr == getJSXAttribute(n, "role")
      explicitRole == JSXStaticString(roleAttr.value)
      implicitRole ==
        getImplicitRole(tagName.v, RedundantRoles_JSXGetAttr(n), RedundantRoles_JSXHasAttr(n))
  IN IF ~Truthy(tagName) THEN <<>>
     ELSE IF roleAttr = NoAttr THEN <<>>
     ELSE IF ~Truthy(explicitRole) THEN <<>>
     ELSE IF Truthy(implicitRole) /\ explicitRole = implicitRole
          THEN <<ReportWithSuggestion(
                   "redundantRole", "attribute",
                   <<<<"role", explicitRole.v>>, <<"element", tagName.v>>>>,
                   <<[desc |-> "Remove redundant role=\"" \o explicitRole.v \o "\"",
                      fix |-> "remove attribute"]>>)>>
          ELSE <<>>

RedundantRoles_JSXOpeningElement(n, cfg) ==
  LET tagName == getElementRoleFromJSX(n, cfg)
      roleAttr == getJSXAttribute(n, "role")
      explicitRole == JSXLowerCasedString(roleAttr.value)
      implicitRole ==
        getImplicitRole(tagName.v, RedundantRoles_JSXGetAttr(n), RedundantRoles_JSXHasAttr(n))
  IN IF ~Truthy(tagName) THEN <<>>
     ELSE IF roleAttr = NoAttr THEN <<>>
     ELSE IF ~Truthy(explicitRole) THEN <<>>
     ELSE IF Truthy(implicitRole) /\ explicitRole = implicitRole
          THEN <<ReportWithSuggestion(
                   "redundantRole", "attribute",
                   <<<<"role", explicitRole.v>>, <<"element", tagName.v>>>>,
                   <<[desc |-> "Remove redundant role=\"" \o explicitRole.v \o "\"",
                      fix |-> "remove attribute"]>>)>>
          ELSE <<>>

RedundantRoles_VElement(n) ==
  LET tagName == ToLowerCase(n.name)
      roleAttr == getVueAttribute(n, "role")
      explicitRole == OptionalToLowerCase(VueValue(roleAttr))
      implicitRole ==
        getImplicitRole(tagName, RedundantRoles_VueGetAttr(n), RedundantRoles_VueHasAttr(n))
  IN IF roleAttr = NoAttr THEN <<>>
     ELSE IF ~Truthy(explicitRole) THEN <<>>
     ELSE IF Truthy(implicitRole) /\ explicitRole = implicitRole
          THEN <<Report("redundantRole", "attribute",
                        <<<<"role", explicitRole.v>>, <<"element", tagName>>>>)>>
          ELSE <<>>

\* the elements the rule is run on: per tag, role attributes and the attributes
\* the implicit role of that tag depends on
RolesWritten(roles) ==
  {JSXAttr("role", JSXLiteral(r)) : r \in roles}
    \cup {JSXAttr("role", JSXExprLiteral(r)) : r \in roles}
    \cup {JSXAttr("role", JSXExprDynamic)}

RedundantRolesJSXFamilies ==
  {[names |-> {JSXIdentifier("nav"), JSXIdentifier("Nav"), JSXIdentifier("Card"),
               JSXMemberExpression("UI.Nav")},
    attrs |-> RolesWritten({"navigation", "NAVIGATION", "button"})
                \cup {JSXAttr("as", JSXLiteral("button"))}],
   [names |-> {JSXIdentifier("a"), JSXIdentifier("Link")},
    attrs |-> RolesWritten({"link", "Link"})
                \cup {JSXAttr("href", JSXLiteral("/home")), JSXAttr("href", JSXLiteral("#")),
                      JSXAttr("href", JSXExprDynamic), JSXAttr("href", JSXNoValue)}],
   [names |-> {JSXIdentifier("input")},
    attrs |-> RolesWritten({"textbox", "checkbox"})
                \cup {JSXAttr("type", JSXLiteral("CheckBox")),
                      JSXAttr("type", JSXLiteral("hidden")),
                      JSXAttr("type", JSXExprDynamic)}],
   [names |-> {JSXIdentifier("select")},
    attrs |-> RolesWritten({"listbox", "combobox"})
                \cup {JSXAttr("multiple", JSXNoValue), JSXAttr("size", JSXLiteral("2")),
                      JSXAttr("size", JSXLiteral("1")),
                      JSXAttr("size", JSXExprNumber("4")),
                      JSXAttr("size", JSXExprDynamic)}],
   [names |-> {JSXIdentifier("section"), JSXIdentifier("div")},
    attrs |-> RolesWritten({"region", ""})
                \cup {JSXAttr("aria-label", JSXLiteral("News")),
                      JSXAttr("aria-labelledby", JSXExprDynamic)}]}

RedundantRolesVueFamilies ==
  {[names |-> {"nav", "NAV", "div"},
    attrs |-> {VueAttr("role", VueLiteral("navigation")),
               VueAttr("role", VueLiteral("Navigation")),
               VueAttr("role", VueNoValue), VueDirective("bind", "role"),
               VueDirectiveNoArg("bind")}],
   [names |-> {"a", "select"},
    attrs |-> {VueAttr("role", VueLiteral("link")), VueAttr("role", VueLiteral("listbox")),
               VueAttr("href", VueLiteral("/home")), VueDirective("bind", "href"),
               VueAttr("multiple", VueNoValue), VueAttr("size", VueLiteral("3px")),
               VueAttr("role", VueLiteral("combobox")), VueDirective("bind", "size")}]}

InitRedundantRoles ==
  /\ \E m \in 0..MaxRuleAttrs :
       \/ \E f \in RedundantRolesJSXFamilies : \E nm \in f.names :
            \E as \in [1..m -> f.attrs] : node = JSXElement(nm, as)
       \/ \E f \in RedundantRolesVueFamilies : \E nm \in f.names :
            \E as \in [1..m -> f.attrs] : node = VueElement(nm, as)
  /\ settings \in {NoSettings, NavMapping}
  /\ op = "none"
  /\ result = FALSE
  /\ files = NoFiles
  /\ cache = NoCache

RedundantRolesVisitJSX ==
  /\ node.dialect = "jsx"
  /\ Visit("no-redundant-roles", RedundantRoles_JSXOpeningElement(node, settings))

RedundantRolesVisitVue ==
  /\ node.dialect = "vue"
  /\ Visit("no-redundant-roles", RedundantRoles_VElement(node))

NextRedundantRoles == RedundantRolesVisitJSX \/ RedundantRolesVisitVue

SpecRedundantRoles == InitRedundantRoles /\ [][NextRedundantRoles]_vars

(***************************************************************************)
(* Rule form-label.                                                        *)
(***************************************************************************)
\* the visitor treating a spread as an attribute that may supply the label
FormLabel_JSXOpeningElement_SpreadSupplies(n) ==
  IF n.name.type # "JSXIdentifier" THEN <<>>
  ELSE LET tagName == ToLowerCase(n.name.name)
           hasAriaLabel == hasJSXAttribute(n, "aria-label")
           hasAriaLabelledBy == hasJSXAttribute(n, "aria-labelledby")
           hits == {i \in DOMAIN n.attributes :
                      \/ n.attributes[i].name = Str("id")
                      \/ n.attributes[i].type = "JSXSpreadAttribute"}
           id == IF ~n.hasAttributes \/ hits = {} THEN JSUndefined
                 ELSE LET idAttr == n.attributes[CHOOSE i \in hits : \A j \in hits : i <= j]
                      IN IF idAttr.type = "JSXSpreadAttribute" THEN Str("spread")
                         ELSE IF idAttr.value.type = "Literal" THEN idAttr.value.value
                         ELSE JSUndefined
       IN IF tagName \in {"input", "select", "textarea"}
          THEN IF ~hasAriaLabel /\ ~hasAriaLabelledBy /\ ~Truthy(id)
               THEN <<Report("missingLabel", "element", <<>>)>>
               ELSE <<>>
          ELSE <<>>

FormLabel_JSXOpeningElement(n) ==
  IF n.name.type # "JSXIdentifier" THEN <<>>
  ELSE LET tagName == ToLowerCase(n.name.name)
           hasAriaLabel == hasJSXAttribute(n, "aria-label")
           hasAriaLabelledBy == hasJSXAttribute(n, "aria-labelledby")
           \* attributes?.find(attr => attr.name?.name === 'id'), then ?.value?.value
           hits == {i \in DOMAIN n.attributes : n.attributes[i].name = Str("id")}
           id == IF ~n.hasAttributes \/ hits = {} THEN JSUndefined
                 ELSE LET idAttr == n.attributes[CHOOSE i \in hits : \A j \in hits : i <= j]
                      IN IF idAttr.value.type = "Literal" THEN idAttr.value.value
                         ELSE JSUndefined
       IN IF tagName \in {"input", "select", "textarea"}
          THEN IF ~hasAriaLabel /\ ~hasAriaLabelledBy /\ ~Truthy(id)
               THEN <<Report("missingLabel", "element", <<>>)>>
               ELSE <<>>
          ELSE <<>>

FormLabel_VElement(n) ==
  LET tagName == ToLowerCase(n.name)
      hasAriaLabel == hasVueAttribute(n, "aria-label")
      hasAriaLabelledBy == hasVueAttribute(n, "aria-labelledby")
      id == VueValue(getVueAttribute(n, "id"))
  IN IF tagName \in {"input", "select", "textarea"}
     THEN IF ~hasAriaLabel /\ ~hasAriaLabelledBy /\ ~Truthy(id)
          THEN <<Report("missingLabel", "element", <<>>)>>
          ELSE <<>>
     ELSE <<>>

\* the elements the rule is run on
FormLabelJSXAttrs ==
  {JSXAttr("id", JSXLiteral("email")), JSXAttr("id", JSXLiteral("")),
   JSXAttr("id", JSXExprDynamic), JSXAttr("id", JSXExprLiteral("email")),
   JSXAttr("aria-label", JSXLiteral("Email")), JSXAttr("aria-labelledby", JSXExprDynamic),
   JSXAttr("type", JSXLiteral("text")), JSXAttr("name", JSXLiteral("email")), JSXSpread}

FormLabelJSXNames ==
  {JSXIdentifier(t) : t \in {"input", "select", "textarea", "div", "Input", "Field"}}
    \cup {JSXMemberExpression("Form.Input")}

FormLabelVueNames == {"input", "select", "textarea", "INPUT", "div"}

FormLabelVueAttrs ==
  {VueAttr("id", VueLiteral("email")), VueAttr("id", VueLiteral("")),
   VueDirective("bind", "id"), VueAttr("aria-label", VueLiteral("Email")),
   VueDirective("bind", "aria-labelledby"), VueAttr("type", VueLiteral("text")),
   VueDirective("on", "input"), VueDirectiveNoArg("bind")}

InitFormLabel ==
  /\ \E m \in 0..MaxRuleAttrs :
       \/ \E nm \in FormLabelJSXNames : \E as \in [1..m -> FormLabelJSXAttrs] :
            node = JSXElement(nm, as)
       \/ \E nm \in FormLabelVueNames : \E as \in [1..m -> FormLabelVueAttrs] :
            node = VueElement(nm, as)
  /\ settings = NoSettings
  /\ op = "none"
  /\ result = FALSE
  /\ files = NoFiles
  /\ cache = NoCache

FormLabelVisitJSX ==
  node.dialect = "jsx" /\ Visit("form-label", FormLabel_JSXOpeningElement(node))

FormLabelVisitVue ==
  node.dialect = "vue" /\ Visit("form-label", FormLabel_VElement(node))

NextFormLabel == FormLabelVisitJSX \/ FormLabelVisitVue

SpecFormLabel == InitFormLabel /\ [][NextFormLabel]_vars

(***************************************************************************)
(* Rule control-has-associated-label.                                      *)
(***************************************************************************)
\* most attributes and children, counted together, of an element handed to the rule
MaxLabelParts == 3

\* children of an element
JSXText(value) == [type |-> "JSXText", value |-> value]

\* {expr}, and {/* comment */} whose expression is a JSXEmptyExpression
JSXExpressionChild(expressionType) ==
  [type |-> "JSXExpressionContainer", expression |-> [type |-> expressionType]]

JSXChildElement == [type |-> "JSXElement"]

VText(value) == [type |-> "VText", value |-> value]

VExpressionChild == [type |-> "VExpressionContainer"]

VChildElement == [type |-> "VElement"]

\* a JSXOpeningElement whose parent JSXElement has the given children
JSXElementWithChildren(name, attrs, children) ==
  [dialect |-> "jsx", name |-> name, hasAttributes |-> TRUE, attributes |-> attrs,
   children |-> children]

VueElementWithChildren(name, attrs, children) ==
  [dialect |-> "vue", name |-> name, hasStartTag |-> TRUE, hasAttributes |-> TRUE,
   attributes |-> attrs, children |-> children]

WhiteSpace == {" ", "\t", "\n"}

\* String.prototype.trim
RECURSIVE Trim(_)
Trim(s) ==
  IF s = "" THEN s
  ELSE IF SubSeq(s, 1, 1) \in WhiteSpace THEN Trim(SubSeq(s, 2, Len(s)))
  ELSE IF SubSeq(s, Len(s), Len(s)) \in WhiteSpace THEN Trim(SubSeq(s, 1, Len(s) - 1))
  ELSE s

ControlLabel_INTERACTIVE_ROLES ==
  {"button", "link", "checkbox", "radio", "textbox", "combobox", "listbox",
   "option", "menuitem", "menuitemcheckbox", "menuitemradio", "slider",
   "spinbutton", "switch", "tab", "treeitem", "gridcell", "searchbox",
   "scrollbar"}

COVERED_NATIVELY == {"button", "input", "select", "textarea", "a"}

getJSXStaticRole(n) ==
  LET roleAttr == getJSXAttribute(n, "role")
  IN IF roleAttr = NoAttr THEN JSNull
     ELSE IF roleAttr.value.type = "null" THEN JSNull
     ELSE JSXLowerCasedString(roleAttr.value)

\* the text test without the trim: a blank text child counts as content
hasJSXTextContent_NoTrim(n) ==
  \E i \in DOMAIN n.children :
    LET child == n.children[i]
    IN IF child.type = "JSXText" THEN child.value # ""
       ELSE IF child.type = "JSXExpressionContainer"
            THEN child.expression.type # "JSXEmptyExpression"
            ELSE FALSE

\* openingElement.parent.children of a parsed element is always an array
hasJSXTextContent(n) ==
  \E i \in DOMAIN n.children :
    LET child == n.children[i]
    IN IF child.type = "JSXText" THEN Trim(child.value) # ""
       ELSE IF child.type = "JSXExpressionContainer"
            THEN child.expression.type # "JSXEmptyExpression"
            ELSE FALSE

hasVueTextContent(n) ==
  \E i \in DOMAIN n.children :
    LET child == n.children[i]
    IN IF child.type = "VText" THEN Trim(child.value) # ""
       ELSE child.type = "VExpressionContainer"

ControlLabel_JSXOpeningElement(n) ==
  IF n.name.type # "JSXIdentifier" THEN <<>>
  ELSE LET tagName == ToLowerCase(n.name.name)
           role == getJSXStaticRole(n)
       IN IF SetHas(COVERED_NATIVELY, Str(tagName)) THEN <<>>
          ELSE IF ~Truthy(role) \/ ~SetHas(ControlLabel_INTERACTIVE_ROLES, role) THEN <<>>
          ELSE IF hasJSXAttribute(n, "aria-label") THEN <<>>
          ELSE IF hasJSXAttribute(n, "aria-labelledby") THEN <<>>
          ELSE IF hasJSXAttribute(n, "title") THEN <<>>
          ELSE IF hasJSXTextContent(n) THEN <<>>
          ELSE <<Report("missingLabel", "element", <<<<"role", role.v>>>>)>>

ControlLabel_VElement(n) ==
  LET tagName == ToLowerCase(n.name)
      roleAttr == getVueAttribute(n, "role")
      role == OptionalToLowerCase(VueValue(roleAttr))
  IN IF SetHas(COVERED_NATIVELY, Str(tagName)) THEN <<>>
     ELSE IF ~Truthy(role) \/ ~SetHas(ControlLabel_INTERACTIVE_ROLES, role) THEN <<>>
     ELSE IF hasVueAttribute(n, "aria-label") THEN <<>>
     ELSE IF hasVueAttribute(n, "aria-labelledby") THEN <<>>
     ELSE IF hasVueAttribute(n, "title") THEN <<>>
     ELSE IF hasVueTextContent(n) THEN <<>>
     ELSE <<Report("missingLabel", "element", <<<<"role", role.v>>>>)>>

\* the elements the rule is run on
ControlLabelJSXAttrs ==
  {JSXAttr("role", JSXLiteral("button")), JSXAttr("role", JSXExprLiteral("Tab")),
   JSXAttr("role", JSXLiteral("tooltip")), JSXAttr("role", JSXExprDynamic),
   JSXAttr("role", JSXNoValue), JSXAttr("aria-label", JSXLiteral("Close")),
   JSXAttr("aria-labelledby", JSXExprDynamic), JSXAttr("title", JSXLiteral("Close")),
   JSXSpread}

ControlLabelJSXNames ==
  {JSXIdentifier(t) : t \in {"div", "a", "Button"}} \cup {JSXMemberExpression("UI.Box")}

ControlLabelJSXChildren ==
  {JSXText("Save"), JSXText("\n  "), JSXExpressionChild("Identifier"),
   JSXExpressionChild("JSXEmptyExpression"), JSXChildElement}

ControlLabelVueAttrs ==
  {VueAttr("role", VueLiteral("button")), VueAttr("role", VueLiteral("Tab")),
   VueAttr("role", VueLiteral("tooltip")), VueDirective("bind", "role"),
   VueAttr("aria-label", VueLiteral("Close")), VueDirective("bind", "aria-labelledby"),
   VueAttr("title", VueLiteral("Close"))}

ControlLabelVueNames == {"div", "A"}

ControlLabelVueChildren == {VText("Save"), VText(" \t"), VExpressionChild, VChildElement}

InitControlLabel ==
  /\ \E m \in 0..MaxLabelParts : \E k \in 0..(MaxLabelParts - m) :
       \/ \E nm \in ControlLabelJSXNames : \E as \in [1..m -> ControlLabelJSXAttrs] :
            \E cs \in [1..k -> ControlLabelJSXChildren] :
              node = JSXElementWithChildren(nm, as, cs)
       \/ \E nm \in ControlLabelVueNames : \E as \in [1..m -> ControlLabelVueAttrs] :
            \E cs \in [1..k -> ControlLabelVueChildren] :
              node = VueElementWithChildren(nm, as, cs)
  /\ settings = NoSettings
  /\ op = "none"
  /\ result = FALSE
  /\ files = NoFiles
  /\ cache = NoCache

ControlLabelVisitJSX ==
  /\ node.dialect = "jsx"
  /\ Visit("control-has-associated-label", ControlLabel_JSXOpeningElement(node))

ControlLabelVisitVue ==
  /\ node.dialect = "vue"
  /\ Visit("control-has-associated-label", ControlLabel_VElement(node))

NextControlLabel == ControlLabelVisitJSX \/ ControlLabelVisitVue

SpecControlLabel == InitControlLabel /\ [][NextControlLabel]_vars

(***************************************************************************)
(* Rule no-interactive-element-to-noninteractive-role.                     *)
(***************************************************************************)
INTERACTIVE_ELEMENTS == {"button", "a", "input", "select", "textarea", "summary"}

NONINTERACTIVE_ROLES == {"none", "presentation"}

getJSXRoleValue(n) ==
  LET roleAttr == getJSXAttribute(n, "role")
  IN IF roleAttr = NoAttr THEN JSNull ELSE JSXLowerCasedString(roleAttr.value)

NoninteractiveRole_JSXOpeningElement(n) ==
  IF n.name.type # "JSXIdentifier" THEN <<>>
  ELSE LET tagName == ToLowerCase(n.name.name)
           role == getJSXRoleValue(n)
           hrefAttr == getJSXAttribute(n, "href")
           typeAttr == getJSXAttribute(n, "type")
       IN IF ~SetHas(INTERACTIVE_ELEMENTS, Str(tagName)) THEN <<>>
          ELSE IF ~Truthy(role) \/ ~SetHas(NONINTERACTIVE_ROLES, role) THEN <<>>
          ELSE IF /\ tagName = "a"
                  /\ \/ hrefAttr = NoAttr
                     \/ hrefAttr.value.type = "Literal" /\ ~Truthy(hrefAttr.value.value)
               THEN <<>>
          ELSE IF /\ tagName = "input"
                  /\ typeAttr # NoAttr
                  /\ typeAttr.value.type = "Literal"
                  /\ typeAttr.value.value = Str("hidden")
               THEN <<>>
          ELSE <<Report("noInteractiveToNoninteractive", "element",
                        <<<<"element", tagName>>, <<"role", role.v>>>>)>>

NoninteractiveRole_VElement(n) ==
  LET tagName == ToLowerCase(n.name)
      role == OptionalToLowerCase(VueValue(getVueAttribute(n, "role")))
      hrefAttr == getVueAttribute(n, "href")
      typeAttr == getVueAttribute(n, "type")
  IN IF ~SetHas(INTERACTIVE_ELEMENTS, Str(tagName)) THEN <<>>
     ELSE IF ~Truthy(role) \/ ~SetHas(NONINTERACTIVE_ROLES, role) THEN <<>>
     ELSE IF tagName = "a" /\ (hrefAttr = NoAttr \/ ~Truthy(VueValue(hrefAttr))) THEN <<>>
     ELSE IF tagName = "input" /\ VueValue(typeAttr) = Str("hidden") THEN <<>>
     ELSE <<Report("noInteractiveToNoninteractive", "element",
                   <<<<"element", tagName>>, <<"role", role.v>>>>)>>

\* the elements the rule is run on: per tag family, role attributes and the
\* attributes the rule looks at for that tag
NoninteractiveRolesWritten ==
  {JSXAttr("role", JSXLiteral("none")), JSXAttr("role", JSXExprLiteral("Presentation")),
   JSXAttr("role", JSXLiteral("button")), JSXAttr("role", JSXExprDynamic)}

NoninteractiveRoleJSXFamilies ==
  {[names |-> {JSXIdentifier("a"), JSXIdentifier("Link")},
    attrs |-> NoninteractiveRolesWritten
                \cup {JSXAttr("href", JSXLiteral("/home")), JSXAttr("href", JSXLiteral("")),
                      JSXAttr("href", JSXExprDynamic), JSXAttr("href", JSXNoValue)}],
   [names |-> {JSXIdentifier("input")},
    attrs |-> NoninteractiveRolesWritten
                \cup {JSXAttr("type", JSXLiteral("hidden")),
                      JSXAttr("type", JSXLiteral("HIDDEN")),
                      JSXAttr("type", JSXExprLiteral("hidden")),
                      JSXAttr("type", JSXLiteral("text")),
                      JSXAttr("type", JSXExprDynamic)}],
   [names |-> {JSXIdentifier("button"), JSXIdentifier("summary"), JSXIdentifier("div"),
               JSXIdentifier("Button"), JSXMemberExpression("UI.Button")},
    attrs |-> NoninteractiveRolesWritten \cup {JSXAttr("onClick", JSXExprDynamic)}]}

NoninteractiveRoleVueFamilies ==
  {[names |-> {"a", "A"},
    attrs |-> {VueAttr("role", VueLiteral("none")), VueAttr("role", VueLiteral("Presentation")),
               VueDirective("bind", "role"), VueAttr("href", VueLiteral("/home")),
               VueAttr("href", VueLiteral("")), VueDirective("bind", "href")}],
   [names |-> {"input", "select", "div"},
    attrs |-> {VueAttr("role", VueLiteral("none")), VueAttr("role", VueLiteral("button")),
               VueAttr("type", VueLiteral("hidden")), VueAttr("type", VueLiteral("Hidden")),
               VueAttr("type", VueLiteral("text")), VueDirective("bind", "type")}]}

InitNoninteractiveRole ==
  /\ \E m \in 0..MaxRuleAttrs :
       \/ \E f \in NoninteractiveRoleJSXFamilies : \E nm \in f.names :
            \E as \in [1..m -> f.attrs] : node = JSXElement(nm, as)
       \/ \E f \in NoninteractiveRoleVueFamilies : \E nm \in f.names :
            \E as \in [1..m -> f.attrs] : node = VueElement(nm, as)
  /\ settings \in {NoSettings, DesignSystemMapping}
  /\ op = "none"
  /\ result = FALSE
  /\ files = NoFiles
  /\ cache = NoCache

NoninteractiveRoleVisitJSX ==
  /\ node.dialect = "jsx"
  /\ Visit("no-interactive-element-to-noninteractive-role",
           NoninteractiveRole_JSXOpeningElement(node))

NoninteractiveRoleVisitVue ==
  /\ node.dialect = "vue"
  /\ Visit("no-interactive-element-to-noninteractive-role", NoninteractiveRole_VElement(node))

NextNoninteractiveRole == NoninteractiveRoleVisitJSX \/ NoninteractiveRoleVisitVue

SpecNoninteractiveRole == InitNoninteractiveRole /\ [][NextNoninteractiveRole]_vars

(***************************************************************************)
(* Rule prefer-tag-over-role.                                              *)
(***************************************************************************)
\* (the dash of the heading entry is written as a hyphen)
ROLE_TO_TAG ==
  [role \in {"button", "checkbox", "combobox", "form", "heading", "img", "link", "list",
             "listitem", "listbox", "main", "navigation", "complementary", "banner",
             "contentinfo", "region", "radio", "searchbox", "slider", "spinbutton",
             "table", "textbox", "meter", "progressbar", "radiogroup", "row", "rowgroup",
             "columnheader", "rowheader", "article", "separator", "term", "definition"} |->
     CASE role = "button" -> "<button>"
       [] role = "checkbox" -> "<input type=\"checkbox\">"
       [] role = "combobox" -> "<select>"
       [] role = "form" -> "<form>"
       [] role = "heading" -> "<h1>-<h6> (with aria-level)"
       [] role = "img" -> "<img>"
       [] role = "link" -> "<a href=\"...\">"
       [] role = "list" -> "<ul> or <ol>"
       [] role = "listitem" -> "<li>"
       [] role = "listbox" -> "<select multiple>"
       [] role = "main" -> "<main>"
       [] role = "navigation" -> "<nav>"
       [] role = "complementary" -> "<aside>"
       [] role = "banner" -> "<header>"
       [] role = "contentinfo" -> "<footer>"
       [] role = "region" -> "<section aria-label=\"...\">"
       [] role = "radio" -> "<input type=\"radio\">"
       [] role = "searchbox" -> "<input type=\"search\">"
       [] role = "slider" -> "<input type=\"range\">"
       [] role = "spinbutton" -> "<input type=\"number\">"
       [] role = "table" -> "<table>"
       [] role = "textbox" -> "<input> or <textarea>"
       [] role = "meter" -> "<meter>"
       [] role = "progressbar" -> "<progress>"
       [] role = "radiogroup" -> "<fieldset>"
       [] role = "row" -> "<tr>"
       [] role = "rowgroup" -> "<thead>, <tbody>, or <tfoot>"
       [] role = "columnheader" -> "<th scope=\"col\">"
       [] role = "rowheader" -> "<th scope=\"row\">"
       [] role = "article" -> "<article>"
       [] role = "separator" -> "<hr>"
       [] role = "term" -> "<dt>"
       [] role = "definition" -> "<dd>"]

\* ROLE_TO_TAG[role] on the object literal: an own key gives its string, a name
\* inherited from Object.prototype gives that member, anything else undefined
RoleToTagLookup(role) ==
  IF role \in DOMAIN ROLE_TO_TAG THEN Str(ROLE_TO_TAG[role])
  ELSE IF role = "constructor" THEN Obj("function Object() { [native code] }")
  ELSE IF role = "__proto__" THEN Obj("[object Object]")
  ELSE JSUndefined

\* getStaticRole(node, getRoleAttr), given the attribute getRoleAttr(node) finds
getStaticRole(roleAttr) ==
  IF roleAttr = NoAttr THEN JSNull
  ELSE IF roleAttr.value.type = "null" THEN JSNull
  ELSE IF roleAttr.value.type \in {"Literal", "JSXExpressionContainer"}
       THEN JSXLowerCasedString(roleAttr.value)
  ELSE IF roleAttr.value.type = "VLiteral" THEN Str(ToLowerCase(roleAttr.value.value.v))
  ELSE JSNull

GENERIC_ELEMENTS ==
  {"div", "span", "section", "article", "aside", "footer", "header",
   "nav", "main", "p", "ul", "ol", "li", "dl", "dt", "dd",
   "figure", "figcaption", "blockquote", "pre", "i", "b", "em",
   "strong", "small", "mark", "sub", "sup", "address"}

\* the visitor leaving alone an element made keyboard accessible
PreferTag_JSXOpeningElement_SkipsKeyboardAccessible(n) ==
  IF n.name.type # "JSXIdentifier" THEN <<>>
  ELSE LET tagName == ToLowerCase(n.name.name)
           role == getStaticRole(getJSXAttribute(n, "role"))
           preferredTag == RoleToTagLookup(role.v)
       IN IF ~SetHas(GENERIC_ELEMENTS, Str(tagName)) THEN <<>>
          ELSE IF ~Truthy(role) THEN <<>>
          ELSE IF ~Truthy(preferredTag) THEN <<>>
          ELSE IF hasJSXAttribute(n, "tabIndex") /\ hasJSXKeyboardHandler(n) THEN <<>>
          ELSE <<Report("preferTag", "element",
                        <<<<"tag", preferredTag.v>>, <<"role", role.v>>>>)>>

PreferTag_JSXOpeningElement(n) ==
  IF n.name.type # "JSXIdentifier" THEN <<>>
  ELSE LET tagName == ToLowerCase(n.name.name)
           role == getStaticRole(getJSXAttribute(n, "role"))
           preferredTag == RoleToTagLookup(role.v)
       IN IF ~SetHas(GENERIC_ELEMENTS, Str(tagName)) THEN <<>>
          ELSE IF ~Truthy(role) THEN <<>>
          ELSE IF ~Truthy(preferredTag) THEN <<>>
          ELSE <<Report("preferTag", "element",
                        <<<<"tag", preferredTag.v>>, <<"role", role.v>>>>)>>

PreferTag_VElement(n) ==
  LET tagName == ToLowerCase(n.name)
      role == getStaticRole(getVueAttribute(n, "role"))
      preferredTag == RoleToTagLookup(role.v)
  IN IF ~SetHas(GENERIC_ELEMENTS, Str(tagName)) THEN <<>>
     ELSE IF ~Truthy(role) THEN <<>>
     ELSE IF ~Truthy(preferredTag) THEN <<>>
     ELSE <<Report("preferTag", "element",
                   <<<<"tag", preferredTag.v>>, <<"role", role.v>>>>)>>

\* the elements the rule is run on
PreferTagJSXAttrs ==
  {JSXAttr("role", JSXLiteral("button")), JSXAttr("role", JSXExprLiteral("Navigation")),
   JSXAttr("role", JSXLiteral("navigation")), JSXAttr("role", JSXLiteral("tooltip")), JSXAttr("role", JSXLiteral("constructor")),
   JSXAttr("role", JSXExprDynamic), JSXAttr("role", JSXNoValue),
   JSXAttr("tabIndex", JSXExprNumber("0")), JSXAttr("onKeyDown", JSXExprDynamic),
   JSXAttr("onClick", JSXExprDynamic), JSXSpread}

PreferTagJSXNames ==
  {JSXIdentifier(t) : t \in {"div", "nav", "button", "Div", "Card"}}
    \cup {JSXMemberExpression("UI.Box")}

PreferTagVueNames == {"div", "SPAN", "button"}

PreferTagVueAttrs ==
  {VueAttr("role", VueLiteral("button")), VueAttr("role", VueLiteral("Heading")),
   VueAttr("role", VueLiteral("tooltip")), VueAttr("role", VueNoValue),
   VueDirective("bind", "role"), VueAttr("tabindex", VueLiteral("0")),
   VueDirective("on", "keydown")}

InitPreferTag ==
  /\ \E m \in 0..MaxRuleAttrs :
       \/ \E nm \in PreferTagJSXNames : \E as \in [1..m -> PreferTagJSXAttrs] :
            node = JSXElement(nm, as)
       \/ \E nm \in PreferTagVueNames : \E as \in [1..m -> PreferTagVueAttrs] :
            node = VueElement(nm, as)
  /\ settings = NoSettings
  /\ op = "none"
  /\ result = FALSE
  /\ files = NoFiles
  /\ cache = NoCache

PreferTagVisitJSX ==
  node.dialect = "jsx" /\ Visit("prefer-tag-over-role", PreferTag_JSXOpeningElement(node))

PreferTagVisitVue ==
  node.dialect = "vue" /\ Visit("prefer-tag-over-role", PreferTag_VElement(node))

NextPreferTag == PreferTagVisitJSX \/ PreferTagVisitVue

SpecPreferTag == InitPreferTag /\ [][NextPreferTag]_vars

(***************************************************************************)
(* A traversal pass: the rules scope and                                   *)
(* no-noninteractive-element-to-interactive-role visit one node after      *)
(* another, in any order and any number of times.                          *)
(***************************************************************************)
\* longest attribute list of a node of the traversed tree
MaxVisitAttrs == 1

TraversalJSXNames == {JSXIdentifier("th"), JSXIdentifier("td"), JSXIdentifier("div")}

TraversalJSXAttrs ==
  {JSXAttr("scope", JSXLiteral("col")), JSXAttr("scope", JSXLiteral("column")),
   JSXAttr("role", JSXLiteral("button")), JSXAttr("role", JSXExprDynamic),
   JSXAttr("onKeyDown", JSXExprDynamic)}

TraversalVueNames == {"th", "td", "div"}

TraversalVueAttrs ==
  {VueAttr("scope", VueLiteral("col")), VueAttr("scope", VueLiteral("column")),
   VueAttr("role", VueLiteral("button")), VueDirective("bind", "role"),
   VueDirective("on", "keydown")}

\* the nodes of the tree
IsTraversalNode(n) ==
  \E m \in 0..MaxVisitAttrs :
    \/ \E nm \in TraversalJSXNames : \E as \in [1..m -> TraversalJSXAttrs] :
         n = JSXElement(nm, as)
    \/ \E nm \in TraversalVueNames : \E as \in [1..m -> TraversalVueAttrs] :
         n = VueElement(nm, as)

\* the pass starts on some node, nothing reported yet
InitTraversal ==
  /\ IsTraversalNode(node)
  /\ settings = NoSettings
  /\ op = "none"
  /\ result = <<>>
  /\ files = NoFiles
  /\ cache = NoCache

\* the pass moves on to another node; the last visit's diagnostics stay reported
Enter ==
  /\ IsTraversalNode(node')
  /\ node' # node
  /\ op' = "enter"
  /\ UNCHANGED <<settings, result, files, cache>>

NextTraversal ==
  \/ Enter
  \/ ScopeVisitJSX
  \/ ScopeVisitVue
  \/ InteractiveRoleVisitJSX
  \/ InteractiveRoleVisitVue

SpecTraversal == InitTraversal /\ [][NextTraversal]_vars

(***************************************************************************)
(* Every rule on one element: a file linted with the eight rules enabled   *)
(* hands each element to each rule's visitor for the element's dialect.    *)
(***************************************************************************)
\* longest attribute list of an element handed to all the rules
MaxElementAttrs == 2

EveryRuleJSXNames ==
  {JSXIdentifier(t) : t \in {"a", "input", "div", "td", "nav", "button", "Widget"}}

EveryRuleJSXAttrs ==
  {JSXAttr("href", JSXNoValue), JSXAttr("role", JSXLiteral("button")),
   JSXAttr("role", JSXLiteral("none")), JSXAttr("role", JSXLiteral("navigation")),
   JSXAttr("scope", JSXLiteral("column"))}

EveryRuleVueNames == {"a", "input", "div", "td", "nav"}

EveryRuleVueAttrs ==
  {VueAttr("href", VueNoValue), VueAttr("role", VueLiteral("button")),
   VueAttr("role", VueLiteral("none")), VueAttr("role", VueLiteral("navigation")),
   VueAttr("scope", VueLiteral("column"))}

InitEveryRule ==
  /\ \E m \in 0..MaxElementAttrs :
       \/ \E nm \in EveryRuleJSXNames : \E as \in [1..m -> EveryRuleJSXAttrs] :
            \E cs \in {<<>>, <<JSXText("Save")>>} :
              node = JSXElementWithChildren(nm, as, cs)
       \/ \E nm \in EveryRuleVueNames : \E as \in [1..m -> EveryRuleVueAttrs] :
            \E cs \in {<<>>, <<VText("Save")>>} :
              node = VueElementWithChildren(nm, as, cs)
  /\ settings = NoSettings
  /\ op = "none"
  /\ result = FALSE
  /\ files = NoFiles
  /\ cache = NoCache

NextEveryRule ==
  \/ FormLabelVisitJSX
  \/ FormLabelVisitVue
  \/ AnchorVisitJSX
  \/ AnchorVisitVue
  \/ InteractiveRoleVisitJSX
  \/ InteractiveRoleVisitVue
  \/ RedundantRolesVisitJSX
  \/ RedundantRolesVisitVue
  \/ NoninteractiveRoleVisitJSX
  \/ NoninteractiveRoleVisitVue
  \/ ScopeVisitJSX
  \/ ScopeVisitVue
  \/ ControlLabelVisitJSX
  \/ ControlLabelVisitVue
  \/ PreferTagVisitJSX
  \/ PreferTagVisitVue

SpecEveryRule == InitEveryRule /\ [][NextEveryRule]_vars

(***************************************************************************)
(* Properties of the event-handler classifier.                             *)
(***************************************************************************)
Categories == {"Click", "Keyboard", "Mouse", "Focus"}

JSXQueries ==
  {"hasJSXClickHandler", "hasJSXKeyboardHandler", "hasJSXMouseHandler",
   "hasJSXFocusHandler", "hasJSXEventHandler"}

VueQueries ==
  {"hasVueClickHandler", "hasVueKeyboardHandler", "hasVueMouseHandler",
   "hasVueFocusHandler", "hasVueEventHandler"}

JSXQuery(q, n) ==
  CASE q = "hasJSXClickHandler" -> hasJSXClickHandler(n)
    [] q = "hasJSXKeyboardHandler" -> hasJSXKeyboardHandler(n)
    [] q = "hasJSXMouseHandler" -> hasJSXMouseHandler(n)
    [] q = "hasJSXFocusHandler" -> hasJSXFocusHandler(n)
    [] q = "hasJSXEventHandler" -> hasJSXEventHandler(n)

JSXCategorySet(c) ==
  CASE c = "Click" -> JSX_CLICK_HANDLERS_SET
    [] c = "Keyboard" -> JSX_KEYBOARD_HANDLERS_SET
    [] c = "Mouse" -> JSX_MOUSE_HANDLERS_SET
    [] c = "Focus" -> JSX_FOCUS_HANDLERS_SET

VueCategorySet(c) ==
  CASE c = "Click" -> VUE_CLICK_HANDLER_SET
    [] c = "Keyboard" -> VUE_KEYBOARD_HANDLER_SET
    [] c = "Mouse" -> VUE_MOUSE_HANDLER_SET
    [] c = "Focus" -> VUE_FOCUS_HANDLER_SET

VueCategoryEvents(c) ==
  CASE c = "Click" -> VUE_CLICK_EVENT_NAMES
    [] c = "Keyboard" -> VUE_KEYBOARD_EVENT_NAMES
    [] c = "Mouse" -> VUE_MOUSE_EVENT_NAMES
    [] c = "Focus" -> VUE_FOCUS_EVENT_NAMES

CategoryAnswer(c, n) ==
  IF n.dialect = "jsx"
  THEN CASE c = "Click" -> hasJSXClickHandler(n)
         [] c = "Keyboard" -> hasJSXKeyboardHandler(n)
         [] c = "Mouse" -> hasJSXMouseHandler(n)
         [] c = "Focus" -> hasJSXFocusHandler(n)
  ELSE CASE c = "Click" -> hasVueClickHandler(n)
         [] c = "Keyboard" -> hasVueKeyboardHandler(n)
         [] c = "Mouse" -> hasVueMouseHandler(n)
         [] c = "Focus" -> hasVueFocusHandler(n)

\* C1: the any-handler query answers exactly the disjunction of the four category
\* queries on the same node, in the JSX dialect and in the Vue dialect.
SinglePassEquivalence ==
  /\ op = "hasJSXEventHandler" =>
       result = (\/ hasJSXClickHandler(node)
                 \/ hasJSXKeyboardHandler(node)
                 \/ hasJSXMouseHandler(node)
                 \/ hasJSXFocusHandler(node))
  /\ op = "hasVueEventHandler" =>
       result = (\/ hasVueClickHandler(node)
                 \/ hasVueKeyboardHandler(node)
                 \/ hasVueMouseHandler(node)
                 \/ hasVueFocusHandler(node))

\* C1 witness: the any-handler query answered TRUE on an element that has a spread
\* attribute and whose only handler is a focus handler.
SinglePassEquivalenceWitness ==
  /\ op = "hasJSXEventHandler"
  /\ result = TRUE
  /\ \E i \in DOMAIN node.attributes : node.attributes[i].type = "JSXSpreadAttribute"
  /\ hasJSXFocusHandler(node)
  /\ ~hasJSXClickHandler(node) /\ ~hasJSXKeyboardHandler(node) /\ ~hasJSXMouseHandler(node)

\* C2: within a dialect no name belongs to two category sets (JSX handler names, Vue
\* attribute names with and without prefix, Vue stripped event names), so an element
\* with a single attribute is matched by at most one category query.
CategoryDisjointness ==
  /\ \A c1 \in Categories : \A c2 \in Categories \ {c1} :
       /\ JSXCategorySet(c1) \cap JSXCategorySet(c2) = {}
       /\ VueCategorySet(c1) \cap VueCategorySet(c2) = {}
       /\ VueCategoryEvents(c1) \cap VueCategoryEvents(c2) = {}
  /\ (op # "none" /\ Len(node.attributes) = 1) =>
       Cardinality({c \in Categories : CategoryAnswer(c, node)}) <= 1

\* C2 witness: a single-attribute element answered as a mouse handler and matched by
\* no other category.
CategoryDisjointnessWitness ==
  /\ op = "hasJSXMouseHandler"
  /\ result = TRUE
  /\ Len(node.attributes) = 1
  /\ {c \in Categories : CategoryAnswer(c, node)} = {"Mouse"}

SingleNamedJSX(n) ==
  /\ n.dialect = "jsx"
  /\ n.hasAttributes
  /\ Len(n.attributes) = 1
  /\ n.attributes[1].type = "JSXAttribute"
  /\ n.attributes[1].name.t = "string"

OnlyAttrName(n) == n.attributes[1].name.v

WithOnlyAttrName(n, name) ==
  [n EXCEPT !.attributes = <<JSXAttr(name, n.attributes[1].value)>>]

EndsWith(s, suffix) ==
  /\ Len(s) >= Len(suffix)
  /\ SubSeq(s, Len(s) - Len(suffix) + 1, Len(s)) = suffix

JSXClassifiedNames ==
  UNION {JSXCategorySet(c) : c \in Categories}

\* C3 as stated: for every classified JSX handler name N (a non-capture name, so
\* that N+'Capture' is its capture-phase variant), each of the five queries answers
\* the same on <div N+'Capture'> as on <div N>.
CaptureCountsIdenticallyForEveryName ==
  (/\ op \in JSXQueries
   /\ SingleNamedJSX(node)
   /\ OnlyAttrName(node) \in JSXClassifiedNames
   /\ ~EndsWith(OnlyAttrName(node), "Capture"))
  => result = JSXQuery(op, WithOnlyAttrName(node, CaptureOf(OnlyAttrName(node))))

\* C3 amended: the same for every classified non-capture name N other than
\* onMouseEnter and onMouseLeave (the two events for which the tables list no
\* capture variant).
CaptureCountsIdentically ==
  (/\ op \in JSXQueries
   /\ SingleNamedJSX(node)
   /\ OnlyAttrName(node) \in JSXClassifiedNames
   /\ ~EndsWith(OnlyAttrName(node), "Capture")
   /\ OnlyAttrName(node) \notin {"onMouseEnter", "onMouseLeave"})
  => result = JSXQuery(op, WithOnlyAttrName(node, CaptureOf(OnlyAttrName(node))))

\* C3 witness: the keyboard query answered TRUE on <div onKeyUp>, whose capture
\* variant <div onKeyUpCapture> it answers TRUE as well.
CaptureCountsIdenticallyWitness ==
  /\ op = "hasJSXKeyboardHandler"
  /\ result = TRUE
  /\ SingleNamedJSX(node)
  /\ OnlyAttrName(node) = "onKeyUp"
  /\ hasJSXKeyboardHandler(WithOnlyAttrName(node, "onKeyUpCapture"))

AllSpreadJSX(n) ==
  /\ n.dialect = "jsx"
  /\ n.hasAttributes
  /\ \A i \in DOMAIN n.attributes : n.attributes[i].type = "JSXSpreadAttribute"

OnlyUnnamedDirectivesVue(n) ==
  /\ n.dialect = "vue"
  /\ n.hasStartTag
  /\ \A i \in DOMAIN n.attributes :
       /\ n.attributes[i].directive
       /\ n.attributes[i].keyName.v \in {"bind", "on"}
       /\ n.attributes[i].argument = JSUndefined

\* C4: an element whose attributes are all spreads (JSX), or all v-bind="obj" / v-on
\* directives without an argument (Vue), gets FALSE from each of the five queries.
NoResolvableNameNeverMatches ==
  (\/ op \in JSXQueries /\ AllSpreadJSX(node)
   \/ op \in VueQueries /\ OnlyUnnamedDirectivesVue(node))
  => result = FALSE

\* C4 witness: the click query answered on an element with two spread attributes,
\* one of which carries a name field 'onClick'.
NoResolvableNameNeverMatchesWitness ==
  /\ op = "hasJSXClickHandler"
  /\ AllSpreadJSX(node)
  /\ Len(node.attributes) = 2
  /\ \E i \in DOMAIN node.attributes : node.attributes[i].name = Str("onClick")
  /\ result = FALSE

(***************************************************************************)
(* Properties of the component-role resolver.                              *)
(***************************************************************************)
\* the attributes of n named by a polymorphic prop name in force for its component
PolymorphicProps(n, cfg) ==
  {i \in DOMAIN n.attributes :
     /\ n.attributes[i].type = "JSXAttribute"
     /\ n.attributes[i].name.t = "string"
     /\ n.attributes[i].name.v \in PolymorphicPropNames(n.name.name, cfg)}

NamesNativeTag(attr) ==
  /\ JSXStaticString(attr.value).t = "string"
  /\ JSXStaticString(attr.value).v \in NATIVE_TAGS

MappedComponent(n, cfg) ==
  /\ n.name.type = "JSXIdentifier"
  /\ n.name.name \notin NATIVE_TAGS
  /\ n.name.name \in cfg.components

\* C5: on a mapped custom component the resolver returns the entry's nativeTag when
\* the node has no polymorphic prop, and the prop's value when its polymorphic
\* props are static strings naming native tags; <Button as="a"> under
\* {Button -> button} resolves to a, <Button> to button.
PolymorphicOverride ==
  (op = "getElementRoleFromJSX" /\ MappedComponent(node, settings)) =>
    LET ps == PolymorphicProps(node, settings)
    IN /\ ps = {} => result = Str(settings.mapping[node.name.name].nativeTag)
       /\ (ps # {} /\ \A i \in ps : NamesNativeTag(node.attributes[i])) =>
            result \in {JSXStaticString(node.attributes[i].value) : i \in ps}
       /\ (settings = ButtonMapping /\ node.name.name = "Button") =>
            /\ node.attributes = <<JSXAttr("as", JSXLiteral("a"))>> => result = Str("a")
            /\ node.attributes = <<>> => result = Str("button")

\* C5 witness: <Button as="a"> resolved to a under {Button -> button}.
PolymorphicOverrideWitness ==
  /\ op = "getElementRoleFromJSX"
  /\ settings = ButtonMapping
  /\ node.name = JSXIdentifier("Button")
  /\ node.attributes = <<JSXAttr("as", JSXLiteral("a"))>>
  /\ result = Str("a")

(***************************************************************************)
(* Properties of the comment cache.                                        *)
(***************************************************************************)
\* what a query answers on a file nobody has queried before
ColdAnswer(f, startPos, endPos, window) ==
  ProximityScan(SortByStartPos(files[f]), startPos, endPos, window)

\* C6: whatever queries and reclaims came before, getCommentsNear answers what a
\* first (cold) query for the same file, node and window answers.
CommentCacheIdempotence ==
  op = "getCommentsNear" =>
    result = ColdAnswer(node.file, node.startPos, node.endPos, node.window)

\* C6 witness: a warm query (the file's entry was stored by an earlier query and the
\* other file is cached too) that returned a comment.
CommentCacheIdempotenceWitness ==
  /\ op = "getCommentsNear"
  /\ \A f \in FileIds : cache[f].cached
  /\ files["b.vue"] # <<>>
  /\ node.file = "a.tsx"
  /\ Len(files[node.file]) = 2
  /\ files[node.file][1].startPos > files[node.file][2].startPos
  /\ Len(result) = 1

(***************************************************************************)
(* Properties of the rules.                                                *)
(***************************************************************************)
\* the tag a rule that resolves components sees: the resolved native tag of a JSX
\* element, the lower-cased name of a Vue element
ResolvedTag(n, cfg) ==
  IF n.dialect = "jsx" THEN getElementRoleFromJSX(n, cfg) ELSE Str(ToLowerCase(n.name))

\* the lower-cased static string of attribute `name`, undefined when the attribute
\* is missing or its value is not a static string
StaticLowerCased(n, name) ==
  IF n.dialect = "jsx"
  THEN IF hasJSXAttribute(n, name)
       THEN OptionalToLowerCase(JSXStaticString(getJSXAttribute(n, name).value))
       ELSE JSUndefined
  ELSE OptionalToLowerCase(VueValue(getVueAttribute(n, name)))

HasTabindex(n) ==
  IF n.dialect = "jsx" THEN hasJSXAttribute(n, "tabIndex") \/ hasJSXAttribute(n, "tabindex")
  ELSE hasVueAttribute(n, "tabindex")

\* a keyboard handler as the event-handler classifier knows it
HasKeyboardHandler(n) ==
  IF n.dialect = "jsx" THEN hasJSXKeyboardHandler(n) ELSE hasVueKeyboardHandler(n)

\* C7: no-noninteractive-element-to-interactive-role reports exactly when the
\* resolved tag is non-interactive, the role is a static string that lower-cases to
\* an interactive role, and the element lacks a tabindex or lacks a keyboard
\* handler; the report carries element = resolved tag, role = lower-cased role.
\* With tabindex and a keyboard handler present nothing is reported.
InteractiveRoleReportedExactly ==
  op = "no-noninteractive-element-to-interactive-role" =>
    LET tag == ResolvedTag(node, settings)
        role == StaticLowerCased(node, "role")
        expected ==
          /\ SetHas(NON_INTERACTIVE_ELEMENTS, tag)
          /\ SetHas(INTERACTIVE_ROLES, role)
          /\ (~HasTabindex(node) \/ ~HasKeyboardHandler(node))
    IN result = IF expected
                THEN <<Report("noNoninteractiveToInteractive", "element",
                              <<<<"element", tag.v>>, <<"role", role.v>>>>)>>
                ELSE <<>>

\* an anchor element: <a>, or in JSX a component that resolves to a
IsAnchor(n, cfg) ==
  IF n.dialect = "jsx"
  THEN n.name.type = "JSXIdentifier" /\ (n.name.name = "a" \/ isElementLike(n, cfg, "a"))
  ELSE n.name = "a"

\* the statically known string of attribute `name` (a string literal, or in JSX a
\* string literal inside an expression container), undefined when there is none
StaticString(n, name) ==
  IF n.dialect = "jsx"
  THEN IF hasJSXAttribute(n, name) THEN JSXStaticString(getJSXAttribute(n, name).value)
       ELSE JSUndefined
  ELSE VueValue(getVueAttribute(n, name))

Reports(messageId) == {i \in DOMAIN result : result[i].messageId = messageId}

\* C8: for an anchor whose href has a statically known string value v (written
\* directly or as a literal inside a JSX expression container), anchor-is-valid
\* reports invalidHref exactly when v is '' or '#' or starts with 'javascript:'
\* case-insensitively, and the reported href is v unmodified.
InvalidHrefReportedExactly ==
  (/\ op = "anchor-is-valid"
   /\ IsAnchor(node, settings)
   /\ StaticString(node, "href").t = "string") =>
    LET v == StaticString(node, "href").v
        invalid == v = "" \/ v = "#" \/ StartsWith(ToLowerCase(v), "javascript:")
    IN /\ invalid <=> Reports("invalidHref") # {}
       /\ \A i \in Reports("invalidHref") : result[i].data = <<<<"href", v>>>>

\* the lower-cased tag of an element, whatever the form of its name
LowerCasedTag(n) == IF n.dialect = "jsx" THEN ToLowerCase(n.name.name) ELSE ToLowerCase(n.name)

HasScope(n) ==
  IF n.dialect = "jsx" THEN hasJSXAttribute(n, "scope") ELSE hasVueAttribute(n, "scope")

\* what the claim says the scope rule reports on the node
ScopeAsClaimed ==
  LET tag == LowerCasedTag(node)
      value == StaticLowerCased(node, "scope")
  IN IF ~HasScope(node) THEN result = <<>>
     ELSE /\ tag # "th" <=> Reports("invalidElement") # {}
          /\ \A i \in Reports("invalidElement") : result[i].data = <<<<"element", tag>>>>
          /\ (/\ tag = "th"
              /\ value.t = "string"
              /\ value.v \notin {"col", "row", "colgroup", "rowgroup"})
               <=> Reports("invalidValue") # {}
          /\ Len(result) <= 1

\* C9 as stated: on every element carrying a scope attribute, in either dialect,
\* invalidElement (element = lower-cased tag) is reported exactly when the tag is
\* not th, invalidValue exactly when the tag is th and the value is a static string
\* that does not lower-case to col, row, colgroup or rowgroup; without a scope
\* attribute nothing is reported.
ScopeReportedOnEveryElement == op = "scope" => ScopeAsClaimed

\* C9 amended: the same on every Vue element and on every JSX element named by a
\* simple identifier; a JSX element named by a member expression is skipped.
ScopeReportedOnIdentifiers ==
  op = "scope" =>
    IF node.dialect = "jsx" /\ node.name.type # "JSXIdentifier"
    THEN result = <<>>
    ELSE ScopeAsClaimed

\* C9 witness: <th scope="column"> got invalidValue with the value column.
ScopeReportedOnIdentifiersWitness ==
  /\ op = "scope"
  /\ node.dialect = "jsx"
  /\ node.name = JSXIdentifier("th")
  /\ node.attributes = <<JSXAttr("scope", JSXLiteral("column"))>>
  /\ result = <<Report("invalidValue", "attribute", <<<<"value", "column">>>>)>>

\* C10: no-redundant-roles reports redundantRole on a JSX element exactly when its
\* tag resolves to a native tag T, its role is a static string R, and lower-case(R)
\* is the implicit role getImplicitRole gives T with the element's attributes; the
\* report carries element = T and role = lower-case(R).  Under {Nav -> nav},
\* <Nav role="navigation"> is reported with element = nav, role = navigation.
RedundantRoleReportedExactly ==
  (op = "no-redundant-roles" /\ node.dialect = "jsx") =>
    LET T == getElementRoleFromJSX(node, settings)
        R == StaticString(node, "role")
        redundant ==
          /\ T.t = "string"
          /\ R.t = "string"
          /\ Str(ToLowerCase(R.v)) =
               getImplicitRole(T.v, RedundantRoles_JSXGetAttr(node),
                               RedundantRoles_JSXHasAttr(node))
    IN /\ redundant <=> Reports("redundantRole") # {}
       /\ Len(result) <= 1
       /\ \A i \in Reports("redundantRole") :
            result[i].data = <<<<"role", ToLowerCase(R.v)>>, <<"element", T.v>>>>
       /\ (/\ settings = NavMapping
           /\ node.name = JSXIdentifier("Nav")
           /\ node.attributes = <<JSXAttr("role", JSXLiteral("navigation"))>>) =>
            /\ Len(result) = 1
            /\ result[1].messageId = "redundantRole"
            /\ result[1].data = <<<<"role", "navigation">>, <<"element", "nav">>>>

\* C10 witness: <Nav role="NAVIGATION"> under {Nav -> nav} reported with
\* element = nav and role = navigation.
RedundantRoleReportedExactlyWitness ==
  /\ op = "no-redundant-roles"
  /\ settings = NavMapping
  /\ node.dialect = "jsx"
  /\ node.name = JSXIdentifier("Nav")
  /\ node.attributes = <<JSXAttr("role", JSXLiteral("NAVIGATION"))>>
  /\ Len(result) = 1
  /\ result[1].data = <<<<"role", "navigation">>, <<"element", "nav">>>>

(***************************************************************************)
(* Properties of form-label.                                               *)
(***************************************************************************)
\* an input, select or textarea: the tag as written in JSX, lower-cased in Vue
IsFormControl(n) ==
  IF n.dialect = "jsx"
  THEN n.name.type = "JSXIdentifier" /\ n.name.name \in {"input", "select", "textarea"}
  ELSE ToLowerCase(n.name) \in {"input", "select", "textarea"}

\* C11: an input, select or textarea whose attributes are all spreads (JSX
\* {...props}, Vue v-bind="attrs"), at least one of them, is reported with
\* missingLabel: a spread never counts as supplying a label.
SpreadSuppliesNoLabel ==
  (/\ op = "form-label"
   /\ IsFormControl(node)
   /\ node.attributes # <<>>
   /\ \/ AllSpreadJSX(node)
      \/ /\ node.dialect = "vue"
         /\ \A i \in DOMAIN node.attributes : node.attributes[i] = VueDirectiveNoArg("bind"))
  => result = <<Report("missingLabel", "element", <<>>)>>

\* C11 witness: <input {...props} /> got missingLabel.
SpreadSuppliesNoLabelWitness ==
  /\ op = "form-label"
  /\ node = JSXElement(JSXIdentifier("input"), <<JSXSpread>>)
  /\ result = <<Report("missingLabel", "element", <<>>)>>

\* the element carries an id attribute whose value is not the empty string literal
CarriesId(n) ==
  IF n.dialect = "jsx"
  THEN hasJSXAttribute(n, "id") /\ getJSXAttribute(n, "id").value # JSXLiteral("")
  ELSE hasVueAttribute(n, "id") /\ getVueAttribute(n, "id").value # VueLiteral("")

\* C12: an input, select or textarea that carries an id attribute, its value a
\* string literal or a dynamic expression, is never reported with missingLabel, in
\* either dialect.
IdIsSufficient ==
  (op = "form-label" /\ IsFormControl(node) /\ CarriesId(node))
  => Reports("missingLabel") = {}

(***************************************************************************)
(* Properties of unresolvable tags.                                        *)
(***************************************************************************)
\* C20: a JSX element whose tag is a custom component with no component-mapping
\* entry and no polymorphic prop, such as <Input>, gets no diagnostic: form-label
\* does not take it for the native element of the lower-cased name.
UnresolvableTagSkipped ==
  (/\ op = "form-label"
   /\ node.dialect = "jsx"
   /\ node.name.type = "JSXIdentifier"
   /\ node.name.name \notin NATIVE_TAGS
   /\ getElementRoleFromJSX(node, settings) = JSNull)
  => result = <<>>

(***************************************************************************)
(* Properties of control-has-associated-label.                             *)
(***************************************************************************)
\* text content: a text child with a character that is not white space, or a
\* dynamic expression child
HasTextContent(n) ==
  \E i \in DOMAIN n.children :
    LET child == n.children[i]
    IN \/ /\ child.type \in {"JSXText", "VText"}
          /\ \E j \in 1..Len(child.value) : SubSeq(child.value, j, j) \notin {" ", "\t", "\n"}
       \/ child.type = "VExpressionContainer"
       \/ child.type = "JSXExpressionContainer" /\ child.expression.type # "JSXEmptyExpression"

HasLabelAttribute(n) ==
  \E name \in {"aria-label", "aria-labelledby", "title"} :
    IF n.dialect = "jsx" THEN hasJSXAttribute(n, name) ELSE hasVueAttribute(n, name)

\* what the claim says control-has-associated-label reports on the node
ControlLabelAsClaimed ==
  LET tag == LowerCasedTag(node)
      role == StaticLowerCased(node, "role")
  IN IF /\ tag \notin {"button", "input", "select", "textarea", "a"}
        /\ role.t = "string"
        /\ role.v \in ControlLabel_INTERACTIVE_ROLES
        /\ ~HasLabelAttribute(node)
        /\ ~HasTextContent(node)
     THEN result = <<Report("missingLabel", "element", <<<<"role", role.v>>>>)>>
     ELSE result = <<>>

\* C13 as stated: on every element, missingLabel (role = the lower-cased role) is
\* reported exactly when the tag is not button, input, select, textarea or a, the
\* role is a static string in the interactive role set, and the element has no
\* aria-label, aria-labelledby or title attribute and no text content.
ControlLabelReportedOnEveryElement ==
  op = "control-has-associated-label" => ControlLabelAsClaimed

\* C13 amended: the same on every Vue element and on every JSX element named by a
\* simple identifier, the tag compared lower-cased; a JSX element named by a member
\* expression is skipped.
ControlLabelReportedOnIdentifiers ==
  op = "control-has-associated-label" =>
    IF node.dialect = "jsx" /\ node.name.type # "JSXIdentifier"
    THEN result = <<>>
    ELSE ControlLabelAsClaimed

\* C13 witness: <div role="button"> with only a blank text child got missingLabel
\* with the role button.
ControlLabelReportedOnIdentifiersWitness ==
  /\ op = "control-has-associated-label"
  /\ node = JSXElementWithChildren(JSXIdentifier("div"),
                                   <<JSXAttr("role", JSXLiteral("button"))>>,
                                   <<JSXText("\n  ")>>)
  /\ result = <<Report("missingLabel", "element", <<<<"role", "button">>>>)>>

(***************************************************************************)
(* Properties of no-interactive-element-to-noninteractive-role.            *)
(***************************************************************************)
\* an <a> with an href: the attribute is there and is not the empty string
HasHref(n) ==
  IF n.dialect = "jsx"
  THEN hasJSXAttribute(n, "href") /\ StaticString(n, "href") # Str("")
  ELSE hasVueAttribute(n, "href") /\ StaticString(n, "href") # Str("")

\* button, select, textarea, summary, input other than type hidden, a with an href
IsInteractiveElement(n) ==
  LET tag == LowerCasedTag(n)
  IN \/ tag \in {"button", "select", "textarea", "summary"}
     \/ tag = "input" /\ StaticString(n, "type") # Str("hidden")
     \/ tag = "a" /\ HasHref(n)

\* C14: no-interactive-element-to-noninteractive-role reports exactly when the
\* static role is none or presentation and the element is interactive (button,
\* select, textarea, summary, input other than type hidden, a with an href); an <a>
\* without an href attribute and an <input type="hidden"> are never reported.
InteractiveElementReportedExactly ==
  op = "no-interactive-element-to-noninteractive-role" =>
    LET role == StaticLowerCased(node, "role")
    IN IF /\ role.t = "string"
          /\ role.v \in {"none", "presentation"}
          /\ IsInteractiveElement(node)
       THEN result = <<Report("noInteractiveToNoninteractive", "element",
                              <<<<"element", LowerCasedTag(node)>>, <<"role", role.v>>>>)>>
       ELSE result = <<>>

\* the element with its component name replaced by the native tag it resolves to
AsNativeTag(n, cfg) == [n EXCEPT !.name = JSXIdentifier(getElementRoleFromJSX(n, cfg).v)]

\* the message ids of a sequence of diagnostics
Verdict(diagnostics) == [i \in DOMAIN diagnostics |-> diagnostics[i].messageId]

\* C15: a design-system component mapped to a native tag (no polymorphic prop on
\* the element) gets from no-interactive-element-to-noninteractive-role the verdict
\* the rule gives that native tag with the same attributes.
MappedComponentGetsNativeVerdict ==
  (/\ op = "no-interactive-element-to-noninteractive-role"
   /\ node.dialect = "jsx"
   /\ node.name.type = "JSXIdentifier"
   /\ node.name.name \in settings.components
   /\ PolymorphicHits(node, settings) = {})
  => Verdict(result)
       = Verdict(NoninteractiveRole_JSXOpeningElement(AsNativeTag(node, settings)))

(***************************************************************************)
(* Properties of prefer-tag-over-role.                                     *)
(***************************************************************************)
\* the element with nothing but its role attribute
WithRoleOnly(n) ==
  LET roleAttr == IF n.dialect = "jsx" THEN getJSXAttribute(n, "role")
                  ELSE getVueAttribute(n, "role")
  IN [n EXCEPT !.attributes = IF roleAttr = NoAttr THEN <<>> ELSE <<roleAttr>>]

\* C16: the verdict of prefer-tag-over-role depends on the tag and the static role
\* only: an element gets the report the rule gives the same element stripped of
\* every attribute but its role (tabIndex and keyboard handlers make no
\* difference), and every generic element whose static role is a key of ROLE_TO_TAG
\* is reported with preferTag and tag = ROLE_TO_TAG[role].
PreferTagFiresUnconditionally ==
  op = "prefer-tag-over-role" =>
    LET role == StaticLowerCased(node, "role")
        generic == /\ node.dialect = "jsx" => node.name.type = "JSXIdentifier"
                   /\ LowerCasedTag(node) \in GENERIC_ELEMENTS
    IN /\ result = IF node.dialect = "jsx"
                   THEN PreferTag_JSXOpeningElement(WithRoleOnly(node))
                   ELSE PreferTag_VElement(WithRoleOnly(node))
       /\ (generic /\ role.t = "string" /\ role.v \in DOMAIN ROLE_TO_TAG)
            => result = <<Report("preferTag", "element",
                                 <<<<"tag", ROLE_TO_TAG[role.v]>>, <<"role", role.v>>>>)>>

\* C16 witness: <div role="button" tabIndex={0} onKeyDown={fn}> got preferTag with
\* the tag <button>.
PreferTagFiresUnconditionallyWitness ==
  /\ op = "prefer-tag-over-role"
  /\ node = JSXElement(JSXIdentifier("div"),
                       <<JSXAttr("role", JSXLiteral("button")),
                         JSXAttr("tabIndex", JSXExprNumber("0")),
                         JSXAttr("onKeyDown", JSXExprDynamic)>>)
  /\ result = <<Report("preferTag", "element",
                       <<<<"tag", "<button>">>, <<"role", "button">>>>)>>

(***************************************************************************)
(* Properties of no-redundant-roles: dynamic values and suggestions.       *)
(***************************************************************************)
\* attribute `name` is there with a dynamic (non-literal) value
HasDynamicValue(n, name) ==
  IF n.dialect = "jsx"
  THEN /\ hasJSXAttribute(n, name)
       /\ getJSXAttribute(n, name).value.type = "JSXExpressionContainer"
       /\ getJSXAttribute(n, name).value.expression.type # "Literal"
  ELSE hasVueAttribute(n, name) /\ getVueAttribute(n, name).directive

\* the implicit role of the element depends on an attribute whose value is dynamic:
\* href of <a>, type of <input>, size of a <select> without multiple
ImplicitRoleIsUnknown(n, cfg) ==
  LET tag == ResolvedTag(n, cfg)
      multiple == IF n.dialect = "jsx" THEN hasJSXAttribute(n, "multiple")
                  ELSE hasVueAttribute(n, "multiple")
  IN \/ tag = Str("a") /\ HasDynamicValue(n, "href")
     \/ tag = Str("input") /\ HasDynamicValue(n, "type")
     \/ tag = Str("select") /\ HasDynamicValue(n, "size") /\ ~multiple

\* C17: no-redundant-roles emits no redundantRole diagnostic for an element whose
\* implicit role depends on an attribute with a dynamic value (href of <a>, type of
\* <input>, size of <select>).
DynamicValueNeverAssumed ==
  (op = "no-redundant-roles" /\ ImplicitRoleIsUnknown(node, settings))
  => Reports("redundantRole") = {}

\* C19: every redundantRole diagnostic of no-redundant-roles, in both dialects,
\* carries a suggestion whose edit removes the role attribute.
RedundantRoleCarriesSuggestion ==
  op = "no-redundant-roles" =>
    \A i \in Reports("redundantRole") :
      /\ result[i].suggest # <<>>
      /\ \A j \in DOMAIN result[i].suggest : result[i].suggest[j].fix = "remove attribute"

(***************************************************************************)
(* Properties of anchor-is-valid: anchors without an href.                 *)
(***************************************************************************)
\* a click handler as the event-handler classifier knows it
HasClickHandler(n) ==
  IF n.dialect = "jsx" THEN hasJSXClickHandler(n) ELSE hasVueClickHandler(n)

HasHrefAttribute(n) ==
  IF n.dialect = "jsx" THEN hasJSXAttribute(n, "href") ELSE hasVueAttribute(n, "href")

\* C21: an anchor with no href attribute gets exactly one diagnostic, preferButton
\* when it has a click handler and missingHref otherwise (never both, never
\* invalidHref); an anchor with an href gets neither preferButton nor missingHref.
AnchorWithoutHrefReportedOnce ==
  (op = "anchor-is-valid" /\ IsAnchor(node, settings)) =>
    IF ~HasHrefAttribute(node)
    THEN result = IF HasClickHandler(node)
                  THEN <<Report("preferButton", "element", <<>>)>>
                  ELSE <<Report("missingHref", "element", <<>>)>>
    ELSE Reports("preferButton") = {} /\ Reports("missingHref") = {}

(***************************************************************************)
(* Properties of case normalisation.                                       *)
(***************************************************************************)
\* the attribute with a static role, scope or type value written in lower case
WithLowerCasedValue(attr) ==
  IF "keyName" \in DOMAIN attr
  THEN IF ~attr.directive /\ attr.keyName \in {Str("role"), Str("scope"), Str("type")}
          /\ attr.value.type = "VLiteral"
       THEN [attr EXCEPT !.value = VueLiteral(ToLowerCase(attr.value.value.v))]
       ELSE attr
  ELSE IF attr.type = "JSXAttribute" /\ attr.name \in {Str("role"), Str("scope"), Str("type")}
       THEN IF attr.value.type = "Literal" /\ attr.value.value.t = "string"
            THEN [attr EXCEPT !.value = JSXLiteral(ToLowerCase(attr.value.value.v))]
            ELSE IF /\ attr.value.type = "JSXExpressionContainer"
                    /\ attr.value.expression.type = "Literal"
                    /\ attr.value.expression.value.t = "string"
                 THEN [attr EXCEPT
                         !.value = JSXExprLiteral(ToLowerCase(attr.value.expression.value.v))]
                 ELSE attr
       ELSE attr

\* the element that differs from n only in the letter case of those values
WithLowerCasedValues(n) ==
  [n EXCEPT !.attributes = [i \in DOMAIN n.attributes |-> WithLowerCasedValue(n.attributes[i])]]

\* C22: no-interactive-element-to-noninteractive-role gives an element the verdict
\* it gives the element that differs only in the letter case of its static role
\* and type values (type="HIDDEN" as type="hidden", role="Presentation" as
\* role="presentation").
CaseNormalisedAtCallSites ==
  op = "no-interactive-element-to-noninteractive-role" =>
    result = IF node.dialect = "jsx"
             THEN NoninteractiveRole_JSXOpeningElement(WithLowerCasedValues(node))
             ELSE NoninteractiveRole_VElement(WithLowerCasedValues(node))

(***************************************************************************)
(* Properties of a traversal pass.                                         *)
(***************************************************************************)
VisitingRules == {"scope", "no-noninteractive-element-to-interactive-role"}

\* what a rule reports on a node, whatever was visited before
DiagnosticsOf(rule, n, cfg) ==
  IF rule = "scope"
  THEN IF n.dialect = "jsx" THEN Scope_JSXOpeningElement(n) ELSE Scope_VElement(n)
  ELSE IF n.dialect = "jsx" THEN InteractiveRole_JSXOpeningElement(n, cfg)
       ELSE InteractiveRole_VElement(n)

FullScan(comments, startPos, endPos, window) ==
  LET InBounds(c) == c.startPos >= startPos /\ c.startPos <= endPos + window
  IN SelectSeq(comments, InBounds)

IsSortedByStartPos(comments) ==
  \A i \in DOMAIN comments : \A j \in DOMAIN comments :
    i < j => comments[i].startPos <= comments[j].startPos

\* C24: the early-exit scan returns exactly the comments, in order, that a scan of
\* the whole stored sequence selects with the same bounds (start not before the
\* node's start, start not past node.endPos + window), for as long as the sequence
\* the query stored is held, and every stored sequence is sorted ascending by
\* startPos.
EarlyExitEqualsFullScan ==
  /\ \A f \in FileIds : cache[f].cached => IsSortedByStartPos(cache[f].comments)
  /\ op = "getCommentsNear" /\ cache[node.file].cached =>
       result = FullScan(cache[node.file].comments,
                            node.startPos, node.endPos, node.window)

\* C24 witness: a query on a file whose comments the parser handed over out of
\* order, with a comment before the node that the scan skips and a comment past
\* the window at which it stops; nothing lies in between and the answer is empty.
EarlyExitEqualsFullScanWitness ==
  /\ op = "getCommentsNear"
  /\ Len(files[node.file]) = 2
  /\ files[node.file][1].startPos > files[node.file][2].startPos
  /\ cache[node.file].cached
  /\ node.startPos > cache[node.file].comments[1].startPos
  /\ node.endPos + node.window < cache[node.file].comments[2].startPos
  /\ result = <<>>

(***************************************************************************)
(* Properties of the handler tests the rules carry themselves.             *)
(***************************************************************************)
\* the keyboard-handler test no-noninteractive-element-to-interactive-role applies
RuleKeyboardTest(n) ==
  IF n.dialect = "jsx" THEN InteractiveRole_hasJSXKeyboardHandler(n)
  ELSE InteractiveRole_hasVueKeyboardHandler(n)

\* the keyboard-handler test of the event-handler classifier
ClassifierKeyboardTest(n) ==
  IF n.dialect = "jsx" THEN hasJSXKeyboardHandler(n) ELSE hasVueKeyboardHandler(n)

\* C25: on every element no-noninteractive-element-to-interactive-role visits, in
\* either dialect, the keyboard-handler test the rule uses answers what the
\* event-handler classifier's keyboard test answers.
RuleHandlerTestsAgreeWithClassifier ==
  op = "no-noninteractive-element-to-interactive-role" =>
    RuleKeyboardTest(node) = ClassifierKeyboardTest(node)

(***************************************************************************)
(* Properties of prefer-tag-over-role: native semantic elements.           *)
(***************************************************************************)
\* String.prototype.includes
Includes(s, part) ==
  \E i \in 1..(Len(s) + 1) :
    i + Len(part) - 1 <= Len(s) /\ SubSeq(s, i, i + Len(part) - 1) = part

\* the recommendation names the tag, as in '<nav>' or '<ul> or <ol>'
RecommendsTag(recommendation, tag) == Includes(recommendation, "<" \o tag \o ">")

\* C26: prefer-tag-over-role never reports an element whose own tag is the native
\* element, or one of the native elements, that the report recommends for the
\* element's role (as <nav role="navigation"> would be told to use <nav>).
NativeSemanticElementSkipped ==
  op = "prefer-tag-over-role" =>
    \A i \in DOMAIN result :
      ~RecommendsTag(result[i].data[1][2], LowerCasedTag(node))

(***************************************************************************)
(* Properties of all rules: diagnostics per visit.                         *)
(***************************************************************************)
RuleNames ==
  {"form-label", "anchor-is-valid", "no-noninteractive-element-to-interactive-role",
   "no-redundant-roles", "no-interactive-element-to-noninteractive-role", "scope",
   "control-has-associated-label", "prefer-tag-over-role"}

\* C27: whichever rule visits an element, of either dialect, the visit emits at
\* most one diagnostic.
AtMostOneDiagnosticPerVisit == op \in RuleNames => Len(result) <= 1

\* C27 witness: scope has visited a Vue element that is not a <th> and whose scope
\* value is not a valid one either, two grounds for a report, and reported once.
AtMostOneDiagnosticPerVisitWitness ==
  /\ op = "scope"
  /\ node.dialect = "vue"
  /\ ToLowerCase(node.name) # "th"
  /\ VueValue(getVueAttribute(node, "scope")) = Str("column")
  /\ Len(result) = 1
  /\ result[1].messageId = "invalidElement"

(***************************************************************************)
(* Properties of all rules: the two dialects.                              *)
(***************************************************************************)
\* a JSX attribute written plainly: name="value" or a bare name
IsPlainStatic(attr) ==
  /\ attr.type = "JSXAttribute"
  /\ \/ attr.value.type = "null"
     \/ attr.value.type = "Literal" /\ attr.value.value.t = "string"

\* a JSX element with a native tag and plain static attributes only
IsPlainNativeElement(n) ==
  /\ n.dialect = "jsx"
  /\ n.name.type = "JSXIdentifier"
  /\ n.name.name \in NATIVE_TAGS
  /\ \A i \in DOMAIN n.attributes : IsPlainStatic(n.attributes[i])

\* the same attribute in a Vue template
AsVueAttribute(attr) ==
  VueAttr(attr.name.v,
          IF attr.value.type = "null" THEN VueNoValue ELSE VueLiteral(attr.value.value.v))

AsVueChild(child) ==
  IF child.type = "JSXText" THEN VText(child.value)
  ELSE IF child.type = "JSXElement" THEN VChildElement
  ELSE VExpressionChild

\* the same element in a Vue template
AsVueElement(n) ==
  VueElementWithChildren(n.name.name,
                         [i \in DOMAIN n.attributes |-> AsVueAttribute(n.attributes[i])],
                         [i \in DOMAIN n.children |-> AsVueChild(n.children[i])])

\* what the rule's VElement visitor reports on a Vue element
VElementDiagnostics(rule, n) ==
  CASE rule = "form-label" -> FormLabel_VElement(n)
    [] rule = "anchor-is-valid" -> AnchorIsValid_VElement(n)
    [] rule = "no-noninteractive-element-to-interactive-role" -> InteractiveRole_VElement(n)
    [] rule = "no-redundant-roles" -> RedundantRoles_VElement(n)
    [] rule = "no-interactive-element-to-noninteractive-role" -> NoninteractiveRole_VElement(n)
    [] rule = "scope" -> Scope_VElement(n)
    [] rule = "control-has-associated-label" -> ControlLabel_VElement(n)
    [] rule = "prefer-tag-over-role" -> PreferTag_VElement(n)

\* message id and data of each diagnostic
VerdictWithData(diagnostics) ==
  [i \in DOMAIN diagnostics |-> <<diagnostics[i].messageId, diagnostics[i].data>>]

\* C28: a native-tag element whose attributes are all written as plain static
\* attributes gets from a rule's JSXOpeningElement visitor the verdict (reported or
\* not, message id and data) that the rule's VElement visitor gives the same
\* element written in a Vue template.
DialectsGetSameVerdict ==
  (op \in RuleNames /\ IsPlainNativeElement(node)) =>
    VerdictWithData(result) = VerdictWithData(VElementDiagnostics(op, AsVueElement(node)))

====
